---- MODULE Spec2Model ----
(***************************************************************************)
(* The exhaustive counting engine of the link-grammar parser               *)
(* (src/link-grammar/histogram.h: memo table, do_match, do_count,          *)
(* do_parse) and the SAT encoder's WordTag::match (src/unnamed/part_000).  *)
(*                                                                         *)
(* The specifications of the module:                                       *)
(*   Spec       the count context driven through alloc_count_context,      *)
(*              do_parse (with the do_count recursion unrolled on an       *)
(*              explicit call stack) and free_count_context;               *)
(*   SpecLive   Spec for the first do_parse of a context, with fairness;   *)
(*   SpecMatch  the connector matchers applied to bounded inputs;          *)
(*   SpecTable  alloc_count_context and free_count_context;                *)
(*   SpecDelete delete_unmarked_disjuncts applied to marked lists;         *)
(*   SpecPrune  conjunction_prune: region_valid, mark_region.              *)
(***************************************************************************)
EXTENDS Integers, Sequences, FiniteSets, TLC

VARIABLES
    sent,        \* index of the sentence being parsed (Sentence sent)
    opts,        \* Parse_Options: [islands_ok]
    build,       \* TRUE when compiled with USE_FAT_LINKAGES
    live,        \* TRUE while the count_context_t is allocated
    ctxt,        \* struct count_context_s
    stack,       \* the C call stack of do_count frames, innermost last
    pc,          \* where do_parse is: "idle", "count", "ret"
    null_count,  \* do_parse's null_count argument
    total,       \* do_parse's local total
    result,      \* the value the last do_parse returned
    res_out,     \* what resources_exhausted(opts->resources) answers
    calls,       \* do_parse calls made on this context (history)
    tainted,     \* exhausted was TRUE at some point of this context (history)
    lists,       \* match lists formed and not yet put back (history)
    mq,          \* SpecMatch: the matcher's arguments
    mres,        \* SpecMatch: the matchers' results
    word_d,      \* sent->word[w].d: the head of word w's disjunct list
    d_next,      \* Disjunct.next of every disjunct
    d_marked,    \* Disjunct.marked of every disjunct
    freed,       \* the disjuncts handed to xfree, in order (history)
    deletable,   \* sent->deletable, as the set of words that may be deleted
    mstack       \* the C call stack of mark_region frames, innermost last

vars == << sent, opts, build, live, ctxt, stack, pc, null_count, total, result,
           res_out, calls, tainted, lists, mq, mres, word_d, d_next, d_marked, freed,
           deletable, mstack >>

parseVars == << sent, opts, build, live, ctxt, stack, pc, null_count, total,
                result, res_out, calls, tainted, lists >>

matchVars == << mq, mres >>

pruneVars == << word_d, d_next, d_marked, freed, deletable, mstack >>

(***************************************************************************)
(* Bounds of the model.                                                    *)
(***************************************************************************)
\* longest lower-case suffix of a connector string fed to the matchers
MaxTailLen == 1
\* largest length_limit fed to the matchers
MaxLimit == 2
\* largest null_count passed to do_parse
MaxNull == 1
\* do_parse calls made on one count context
MaxCalls == 2
\* largest sent_length hint passed to alloc_count_context in SpecTable
MaxSentLen == 90
\* words of the longest LinkOver sentence
MaxWords == 3
\* words after the first of the longest MultiStar sentence
MaxFollowers == 1
\* INT_MAX of <limits.h>, scaled down so that the bounded sentences reach it
INT_MAX == 3
\* the 450100 of find_table_pointer's poll of resources_exhausted, scaled down
\* so that the poll happens inside the bounded sentences
CheckPeriod == 4

(***************************************************************************)
(* Connectors.  A connector string is a sequence of one-character strings; *)
(* reading at or past its end gives the terminating NUL.                   *)
(***************************************************************************)
NUL == "\\0"

UpperChars == {"S", "O"}

LowerChars == {"a", "b", "*", "^"}

THIN_priority == "THIN"

UP_priority == "UP"

DOWN_priority == "DOWN"

Priorities == {THIN_priority, UP_priority, DOWN_priority}

\* the connector address NULL; other addresses are indices of the arena
NULL == 0

isupper(c) == c \in UpperChars

CharAt(s, i) == IF i <= Len(s) THEN s[i] ELSE NUL

\* The upper-case loop shared by the matchers: s and t advance in lockstep
\* while either character is upper case; any difference fails.  The result
\* is the index where both loops stop, or 0 for a mismatch.
RECURSIVE UpperPrefix(_, _, _)
UpperPrefix(s, t, i) ==
    IF isupper(CharAt(s, i)) \/ isupper(CharAt(t, i))
    THEN IF CharAt(s, i) # CharAt(t, i) THEN 0 ELSE UpperPrefix(s, t, i + 1)
    ELSE i

\* ThinStep with the test of t's "*" left out
ThinStepOneSided(cs, ct) == (cs = "*") \/ ((cs = ct) /\ (cs # "^"))

\* the character tests of the three suffix loops (lines 248-249, 274, 286)
ThinStep(cs, ct) == (cs = "*") \/ (ct = "*") \/ ((cs = ct) /\ (cs # "^"))

UpDownStep(cs, ct) == (cs = ct) \/ (cs = "*") \/ (ct = "^")

\* DownUpStep with the tests of the UP/DOWN case, not mirrored
DownUpStepUnmirrored(cs, ct) == (cs = ct) \/ (cs = "*") \/ (ct = "^")

DownUpStep(cs, ct) == (cs = ct) \/ (ct = "*") \/ (cs = "^")

SuffixStep(mode, cs, ct) ==
    CASE mode = "thin"   -> ThinStep(cs, ct)
      [] mode = "updown" -> UpDownStep(cs, ct)
      [] mode = "downup" -> DownUpStep(cs, ct)

\* The three suffix loops of the USE_FAT_LINKAGES do_match: run while both
\* strings have characters left, fail on the first pair the step rejects.
RECURSIVE SuffixLoop(_, _, _, _)
SuffixLoop(s, t, i, mode) ==
    IF CharAt(s, i) # NUL /\ CharAt(t, i) # NUL
    THEN IF SuffixStep(mode, CharAt(s, i), CharAt(t, i))
         THEN SuffixLoop(s, t, i + 1, mode)
         ELSE FALSE
    ELSE TRUE

\* easy_match(s, t) of word-utils.h: the THIN/THIN matcher on the strings
easy_match(s, t) ==
    LET i == UpperPrefix(s, t, 1)
    IN  IF i = 0 THEN FALSE ELSE SuffixLoop(s, t, i, "thin")

\* do_match compiled with USE_FAT_LINKAGES; effective_dist is
\* ctxt->effective_dist[aw][bw]
fat_do_match(a, b, aw, bw, effective_dist) ==
    IF a.label # b.label THEN FALSE
    ELSE
    LET i    == UpperPrefix(a.string, b.string, 1)
        x    == a.priority
        y    == b.priority
        dist == IF aw = 0 /\ bw = 0 THEN 0 ELSE effective_dist
    IN  IF i = 0 THEN FALSE
        ELSE IF dist > a.length_limit \/ dist > b.length_limit THEN FALSE
        ELSE IF (x = THIN_priority) /\ (y = THIN_priority)
        THEN SuffixLoop(a.string, b.string, i, "thin")
        ELSE IF (x = UP_priority) /\ (y = DOWN_priority)
        THEN SuffixLoop(a.string, b.string, i, "updown")
        ELSE IF (y = UP_priority) /\ (x = DOWN_priority)
        THEN SuffixLoop(a.string, b.string, i, "downup")
        ELSE FALSE

\* thin_do_match with the length-limit test left out
thin_do_match_nolimit(a, b, aw, bw) == easy_match(a.string, b.string)

\* do_match compiled without USE_FAT_LINKAGES
thin_do_match(a, b, aw, bw) ==
    LET dist == bw - aw
    IN  IF dist > a.length_limit \/ dist > b.length_limit THEN FALSE
        ELSE easy_match(a.string, b.string)

\* alt_connectivity_possible: the hier_depth shortcut, else in_same_alternative
alt_connectivity_possible(c1, c2, same_alt) ==
    IF (c2.hier_depth = 0) \/ (c1.hier_depth = 0) THEN TRUE ELSE same_alt

\* WordTag::match; easy_match_desc compares the descriptors' strings
WordTag_match(w1, cntr1, w2, cntr2, same_alt) ==
    LET dist == w2 - w1
    IN  IF dist > cntr1.length_limit \/ dist > cntr2.length_limit THEN FALSE
        ELSE IF ~alt_connectivity_possible(cntr1, cntr2, same_alt) THEN FALSE
        ELSE easy_match(cntr1.string, cntr2.string)

(***************************************************************************)
(* Sentences.  A sentence holds its connector arena (conn: the address of  *)
(* a connector is its index, NULL is 0) and, for each word, the list of    *)
(* its disjuncts (word[w + 1] for word w).  Connector lists start with the *)
(* connector that links farthest; next is the following connector of the   *)
(* same side of the same disjunct.  The word field is the nearest word the *)
(* connector may link to, as the pruning stages leave it.                  *)
(***************************************************************************)
Cn(str, multi, limit, word, next) ==
    [string |-> str, label |-> 0, priority |-> THIN_priority, multi |-> multi,
     length_limit |-> limit, word |-> word, next |-> next]

Dj(left, right) == [left |-> left, right |-> right]

\* [A: {right=[S+]}, B: {left=[S-]}]
TwoWords ==
    [length |-> 2,
     conn   |-> << Cn(<<"S">>, FALSE, 2, 1, NULL), Cn(<<"S">>, FALSE, 2, 0, NULL) >>,
     word   |-> << << Dj(NULL, 1) >>, << Dj(2, NULL) >> >>]

\* [A: {right=[Sa+]}, B: {left=[O-]} or {left=[S*-]}]
Wildcard ==
    [length |-> 2,
     conn   |-> << Cn(<<"S", "a">>, FALSE, 2, 1, NULL), Cn(<<"O">>, FALSE, 2, 0, NULL),
                   Cn(<<"S", "*">>, FALSE, 2, 0, NULL) >>,
     word   |-> << << Dj(NULL, 1) >>, << Dj(2, NULL), Dj(3, NULL) >> >>]

\* [A: {right=[S+]}, B: {}, C: {left=[S-]}]
OneNull ==
    [length |-> 3,
     conn   |-> << Cn(<<"S">>, FALSE, 2, 1, NULL), Cn(<<"S">>, FALSE, 2, 1, NULL) >>,
     word   |-> << << Dj(NULL, 1) >>, << Dj(NULL, NULL) >>, << Dj(2, NULL) >> >>]

\* [A(rlim=1): {right=[S+]}, B: {}, C: {left=[S-]}]
LengthLimit ==
    [length |-> 3,
     conn   |-> << Cn(<<"S">>, FALSE, 1, 1, NULL), Cn(<<"S">>, FALSE, 2, 1, NULL) >>,
     word   |-> << << Dj(NULL, 1) >>, << Dj(NULL, NULL) >>, << Dj(2, NULL) >> >>]

\* [A: {right=[S+, multi]}, B: {left=[S-]}, C: {left=[S-]}]
MultiConn ==
    [length |-> 3,
     conn   |-> << Cn(<<"S">>, TRUE, 2, 1, NULL), Cn(<<"S">>, FALSE, 2, 0, NULL),
                   Cn(<<"S">>, FALSE, 2, 0, NULL) >>,
     word   |-> << << Dj(NULL, 1) >>, << Dj(2, NULL) >>, << Dj(3, NULL) >> >>]

\* [A: {right=[S+ O+]}, B: {left=[O-]}, C: {left=[S-]}]: S links A-C over O A-B
Nested ==
    [length |-> 3,
     conn   |-> << Cn(<<"S">>, FALSE, 2, 2, 2), Cn(<<"O">>, FALSE, 2, 1, NULL),
                   Cn(<<"O">>, FALSE, 2, 0, NULL), Cn(<<"S">>, FALSE, 2, 0, NULL) >>,
     word   |-> << << Dj(NULL, 1) >>, << Dj(3, NULL) >>, << Dj(4, NULL) >> >>]

\* [A: {right=[S+]}, B: {right=[O+]}, C: {left=[S- O-]}]: S links A-C over O B-C
RightNested ==
    [length |-> 3,
     conn   |-> << Cn(<<"S">>, FALSE, 2, 2, NULL), Cn(<<"O">>, FALSE, 2, 2, NULL),
                   Cn(<<"S">>, FALSE, 2, 0, 4), Cn(<<"O">>, FALSE, 2, 1, NULL) >>,
     word   |-> << << Dj(NULL, 1) >>, << Dj(NULL, 2) >>, << Dj(3, NULL) >> >>]

\* [A: two disjuncts {right=[S+]}, B: four disjuncts {left=[S-]}]: 8 linkages
ManyLinkages ==
    [length |-> 2,
     conn   |-> << Cn(<<"S">>, FALSE, 2, 1, NULL), Cn(<<"S">>, FALSE, 2, 1, NULL),
                   Cn(<<"S">>, FALSE, 2, 0, NULL), Cn(<<"S">>, FALSE, 2, 0, NULL),
                   Cn(<<"S">>, FALSE, 2, 0, NULL), Cn(<<"S">>, FALSE, 2, 0, NULL) >>,
     word   |-> << << Dj(NULL, 1), Dj(NULL, 2) >>,
                   << Dj(3, NULL), Dj(4, NULL), Dj(5, NULL), Dj(6, NULL) >> >>]

Sentences ==
    << TwoWords, Wildcard, OneNull, LengthLimit, MultiConn, Nested, RightNested,
       ManyLinkages >>

\* [A(rlim=llim): {right=[S+]}, n - 2 words without connectors,
\*  Z(llim=rlim): {left=[S-]}]
LinkOver(n, llim, rlim) ==
    [length |-> n,
     conn   |-> << Cn(<<"S">>, FALSE, llim, 1, NULL), Cn(<<"S">>, FALSE, rlim, n - 2, NULL) >>,
     word   |-> [w \in 1 .. n |-> IF w = 1 THEN << Dj(NULL, 1) >>
                                  ELSE IF w = n THEN << Dj(2, NULL) >>
                                  ELSE << Dj(NULL, NULL) >>]]

\* the LinkOver sentences in a row: n from 2 to MaxWords, each limit either
\* n - 1, which reaches over the n - 2 words between, or n - 2 (when there is
\* a word between), which does not
LinkOverLimits(n) == IF n = 2 THEN << 1 >> ELSE << n - 2, n - 1 >>

RECURSIVE LinkOverFrom(_)
LinkOverFrom(n) ==
    IF n > MaxWords THEN << >>
    ELSE [i \in 1 .. Len(LinkOverLimits(n)) * Len(LinkOverLimits(n)) |->
             LinkOver(n, LinkOverLimits(n)[1 + ((i - 1) \div Len(LinkOverLimits(n)))],
                         LinkOverLimits(n)[1 + ((i - 1) % Len(LinkOverLimits(n)))])]
         \o LinkOverFrom(n + 1)

LinkOverSentences == LinkOverFrom(2)

\* [A: {right=[S+, multi]}, m words {left=[S-]}]; no length limit binds
MultiStar(m) ==
    [length |-> m + 1,
     conn   |-> << Cn(<<"S">>, TRUE, m + 1, 1, NULL) >>
                \o [w \in 1 .. m |-> Cn(<<"S">>, FALSE, m + 1, w - 1, NULL)],
     word   |-> << << Dj(NULL, 1) >> >> \o [w \in 1 .. m |-> << Dj(w + 1, NULL) >>]]

\* the sentences by index: the scenarios, the LinkOver sentences, then
\* MultiStar(1) to MultiStar(MaxFollowers)
NumSentences == Len(Sentences) + Len(LinkOverSentences) + MaxFollowers

\* [A: {right=[S+]}, B: {right=[O+ X+]} or {right=[O+]}, C: {left=[S- O-]}]:
\* B's first disjunct links its O+ to C and is left with an X+ nothing takes
Dangling ==
    [length |-> 3,
     conn   |-> << Cn(<<"S">>, FALSE, 2, 2, NULL), Cn(<<"O">>, FALSE, 2, 2, 3),
                   Cn(<<"X">>, FALSE, 2, 2, NULL), Cn(<<"O">>, FALSE, 2, 2, NULL),
                   Cn(<<"S">>, FALSE, 2, 0, 6), Cn(<<"O">>, FALSE, 2, 1, NULL) >>,
     word   |-> << << Dj(NULL, 1) >>, << Dj(NULL, 2), Dj(NULL, 4) >>, << Dj(5, NULL) >> >>]

\* the sentences only the pruning pass is run on, after the others
PruneSentences == << Dangling >>

SentenceAt(s) ==
    IF s <= Len(Sentences) THEN Sentences[s]
    ELSE IF s <= Len(Sentences) + Len(LinkOverSentences)
    THEN LinkOverSentences[s - Len(Sentences)]
    ELSE IF s <= NumSentences
    THEN MultiStar(s - Len(Sentences) - Len(LinkOverSentences))
    ELSE PruneSentences[s - NumSentences]

S == SentenceAt(sent)

\* the fields of a connector address; NULL has none
Conn(c) == S.conn[c]

\* local_sent[w].d: the disjunct list of word w
Disjuncts(w) == IF w \in 0 .. (S.length - 1) THEN S.word[w + 1] ELSE << >>

\* sent->effective_dist[aw][bw] of a sentence without conjunctions
effective_dist(aw, bw) == bw - aw

\* do_match as compiled: le sits on word aw, re on word bw
do_match(a, b, aw, bw) ==
    IF build THEN fat_do_match(Conn(a), Conn(b), aw, bw, effective_dist(aw, bw))
    ELSE thin_do_match(Conn(a), Conn(b), aw, bw)

\* form_match_list(mchxt, w, le, lw, re, rw): the disjuncts of word w (as
\* indices into its list) whose left connector is label-compatible with le
\* or whose right connector is label-compatible with re
label_compatible(a, b) == UpperPrefix(Conn(a).string, Conn(b).string, 1) # 0

MatchListKeeps(d, le, re) ==
    \/ (le # NULL /\ d.left # NULL /\ label_compatible(le, d.left))
    \/ (re # NULL /\ d.right # NULL /\ label_compatible(d.right, re))

RECURSIVE MatchListFrom(_, _, _, _)
MatchListFrom(ds, i, le, re) ==
    IF i > Len(ds) THEN << >>
    ELSE (IF MatchListKeeps(ds[i], le, re) THEN << i >> ELSE << >>)
         \o MatchListFrom(ds, i + 1, le, re)

form_match_list(w, le, lw, re, rw) == MatchListFrom(Disjuncts(w), 1, le, re)

(***************************************************************************)
(* The memo table.  Every bucket chain is searched from its head and       *)
(* table_store links the new entry at the head, so among the entries of    *)
(* one key the newest is the one a search finds.  ctxt.table lists the     *)
(* entries in the order they were stored; a Table_connector pointer is the *)
(* entry's position, NULL is 0.                                            *)
(***************************************************************************)
Key(lw, rw, le, re, cost) == [lw |-> lw, rw |-> rw, le |-> le, re |-> re, cost |-> cost]

KeyOf(e) == Key(e.lw, e.rw, e.le, e.re, e.cost)

Max(xs) == CHOOSE x \in xs : \A y \in xs : y <= x

Min2(a, b) == IF a <= b THEN a ELSE b

\* the memset(0) count_context_s of alloc_count_context, before init_table
ZeroContext ==
    [local_sent |-> "NULL", null_block |-> 0, islands_ok |-> FALSE, null_links |-> FALSE,
     table_size |-> 0, log2_table_size |-> 0, has_table |-> FALSE, table |-> << >>,
     current_resources |-> "NULL", exhausted |-> FALSE, checktimer |-> 0]

free_table(c) == [c EXCEPT !.table = << >>, !.has_table = FALSE, !.table_size = 0]

\* init_table without the clamp of line 173
init_table_unclamped(c, sent_len) ==
    LET c0    == IF c.has_table THEN free_table(c) ELSE c
        shift == IF sent_len >= 10 THEN 12 + (sent_len \div 6) ELSE 12
    IN  [c0 EXCEPT !.table_size = 2 ^ shift, !.log2_table_size = shift,
                   !.has_table = TRUE, !.table = << >>]

init_table(c, sent_len) ==
    LET c0     == IF c.has_table THEN free_table(c) ELSE c
        shift0 == IF sent_len >= 10 THEN 12 + (sent_len \div 6) ELSE 12
        shift  == IF 24 < shift0 THEN 24 ELSE shift0
    IN  [c0 EXCEPT !.table_size = 2 ^ shift, !.log2_table_size = shift,
                   !.has_table = TRUE, !.table = << >>]

\* table_store: the context with the entry added; the pointer is Len(table)
table_store(c, k, count) ==
    [c EXCEPT !.table = Append(@, [lw |-> k.lw, rw |-> k.rw, le |-> k.le, re |-> k.re,
                                   cost |-> k.cost, count |-> count])]

\* chain_search comparing every field of the key but cost
chain_search_nocost(c, k) ==
    LET hits == {i \in 1 .. Len(c.table) :
                    [KeyOf(c.table[i]) EXCEPT !.cost = k.cost] = k}
    IN  IF hits = {} THEN NULL ELSE Max(hits)

\* chain_search that looks at the newest entry only and does not follow next
chain_search_head_only(c, k) ==
    IF c.table # << >> /\ KeyOf(c.table[Len(c.table)]) = k THEN Len(c.table) ELSE NULL

\* the chain search of find_table_pointer: the entry found, or NULL
chain_search(c, k) ==
    LET hits == {i \in 1 .. Len(c.table) : KeyOf(c.table[i]) = k}
    IN  IF hits = {} THEN NULL ELSE Max(hits)

\* find_table_pointer answering an exhausted miss with an entry of count 1
find_table_pointer_one(c, k, polled) ==
    LET t  == chain_search(c, k)
        c1 == [c EXCEPT !.checktimer = @ + 1]
    IN  IF t # NULL THEN [ctxt |-> c, t |-> t]
        ELSE IF c1.exhausted \/ ((0 = c1.checktimer % CheckPeriod)
                                  /\ (c1.current_resources # "NULL") /\ polled)
        THEN LET c2 == table_store([c1 EXCEPT !.exhausted = TRUE], k, 1)
             IN  [ctxt |-> c2, t |-> Len(c2.table)]
        ELSE [ctxt |-> c1, t |-> NULL]

\* find_table_pointer that forgets the exhaustion between two polls
find_table_pointer_nolatch(c, k, polled) ==
    LET t  == chain_search(c, k)
        c1 == [c EXCEPT !.checktimer = @ + 1]
    IN  IF t # NULL THEN [ctxt |-> c, t |-> t]
        ELSE IF (0 = c1.checktimer % CheckPeriod)
                /\ (c1.current_resources # "NULL") /\ polled
        THEN LET c2 == table_store([c1 EXCEPT !.exhausted = TRUE], k, 0)
             IN  [ctxt |-> c2, t |-> Len(c2.table)]
        ELSE [ctxt |-> c1, t |-> NULL]

\* find_table_pointer that counts the call before it searches the chain
find_table_pointer_counting(c, k, polled) ==
    LET t  == chain_search(c, k)
        c1 == [c EXCEPT !.checktimer = @ + 1]
    IN  IF t # NULL THEN [ctxt |-> c1, t |-> t]
        ELSE IF c1.exhausted \/ ((0 = c1.checktimer % CheckPeriod)
                                  /\ (c1.current_resources # "NULL") /\ polled)
        THEN LET c2 == table_store([c1 EXCEPT !.exhausted = TRUE], k, 0)
             IN  [ctxt |-> c2, t |-> Len(c2.table)]
        ELSE [ctxt |-> c1, t |-> NULL]

\* find_table_pointer: [ctxt |-> the context afterwards, t |-> pointer or NULL];
\* polled is what resources_exhausted answers if it is asked
find_table_pointer(c, k, polled) ==
    LET t  == chain_search(c, k)
        c1 == [c EXCEPT !.checktimer = @ + 1]
    IN  IF t # NULL THEN [ctxt |-> c, t |-> t]
        ELSE IF c1.exhausted \/ ((0 = c1.checktimer % CheckPeriod)
                                  /\ (c1.current_resources # "NULL") /\ polled)
        THEN LET c2 == table_store([c1 EXCEPT !.exhausted = TRUE], k, 0)
             IN  [ctxt |-> c2, t |-> Len(c2.table)]
        ELSE [ctxt |-> c1, t |-> NULL]

\* table_lookup: the count for this key if there, -1 otherwise
table_lookup(c, k, polled) ==
    LET f == find_table_pointer(c, k, polled)
    IN  [ctxt |-> f.ctxt, count |-> IF f.t = NULL THEN -1 ELSE f.ctxt.table[f.t].count]

\* pseudocount that takes table_lookup's -1 for a zero as well
pseudocount_absent_zero(c, k, polled) ==
    LET l == table_lookup(c, k, polled)
    IN  [ctxt |-> l.ctxt, count |-> IF l.count <= 0 THEN 0 ELSE 1]

\* pseudocount: 0 if and only if the entry is in the table with count 0
pseudocount(c, k, polled) ==
    LET l == table_lookup(c, k, polled)
    IN  [ctxt |-> l.ctxt, count |-> IF l.count = 0 THEN 0 ELSE 1]

(***************************************************************************)
(* do_count frames.  A frame is one activation of do_count: its arguments, *)
(* its locals and where it stands (pc).  The sub-problems a frame is about *)
(* to look up or to count are queued in todo, in the order the code        *)
(* evaluates them; acc sums their answers.                                 *)
(***************************************************************************)
Frame(lw, rw, le, re, nc) ==
    [lw |-> lw, rw |-> rw, le |-> le, re |-> re, null_count |-> nc, pc |-> "start",
     t |-> NULL, w |-> 0, end_word |-> 0, m |-> << >>, mi |-> 0, lcost |-> 0,
     Lmatch |-> FALSE, Rmatch |-> FALSE, leftcount |-> 0, rightcount |-> 0,
     pseudototal |-> 0, total |-> 0, todo |-> << >>, acc |-> 0]

Top == stack[Len(stack)]

Running == live /\ pc = "count" /\ stack # << >>

\* the disjunct the frame's match-list cursor m points to
CurD(f) == Disjuncts(f.w)[f.m[f.mi]]

next(c) == Conn(c).next

\* multi for connectors that are used up by their first link
multi_never(c) == FALSE

multi(c) == Conn(c).multi

\* the sub-problems of the left side of a link le -- d->left (lines 541-544, 571-574)
LeftKeys(f) ==
    LET d == CurD(f)
    IN  << Key(f.lw, f.w, next(f.le), next(d.left), f.lcost) >>
        \o (IF multi(f.le) THEN << Key(f.lw, f.w, f.le, next(d.left), f.lcost) >> ELSE << >>)
        \o (IF multi(d.left) THEN << Key(f.lw, f.w, next(f.le), d.left, f.lcost) >> ELSE << >>)
        \o (IF multi(f.le) /\ multi(d.left)
            THEN << Key(f.lw, f.w, f.le, d.left, f.lcost) >> ELSE << >>)

\* the sub-problems of the right side of a link d->right -- re (lines 549-552, 578-581)
RightKeys(f) ==
    LET d     == CurD(f)
        rcost == f.null_count - f.lcost
    IN  << Key(f.w, f.rw, next(d.right), next(f.re), rcost) >>
        \o (IF multi(d.right) THEN << Key(f.w, f.rw, d.right, next(f.re), rcost) >> ELSE << >>)
        \o (IF multi(f.re) THEN << Key(f.w, f.rw, next(d.right), f.re, rcost) >> ELSE << >>)
        \o (IF multi(d.right) /\ multi(f.re)
            THEN << Key(f.w, f.rw, d.right, f.re, rcost) >> ELSE << >>)

\* "evaluate using the left match, but not the right" (lines 558-561, 586-589)
LeftOnlyKeys(f) ==
    IF f.leftcount > 0
    THEN << Key(f.w, f.rw, CurD(f).right, f.re, f.null_count - f.lcost) >>
    ELSE << >>

\* "evaluate using the right match, but not the left" (lines 562-565, 590-593)
RightOnlyKeys(f) ==
    IF (f.le = NULL) /\ (f.rightcount > 0)
    THEN << Key(f.lw, f.w, f.le, CurD(f).left, f.lcost) >>
    ELSE << >>

\* SetCount that stores nothing
SetCountNothing(c, t, v) == c

\* SetCount writing v into every entry of the words lw, rw of entry t
SetCountSameRange(c, t, v) ==
    [c EXCEPT !.table = [i \in 1 .. Len(c.table) |->
        IF c.table[i].lw = c.table[t].lw /\ c.table[i].rw = c.table[t].rw
        THEN [c.table[i] EXCEPT !.count = v] ELSE c.table[i]]]

\* t->count = v
SetCount(c, t, v) == [c EXCEPT !.table[t].count = v]

\* the stack after the innermost frame returns val to its caller's pending call
Pop(val) ==
    IF Len(stack) = 1 THEN << >>
    ELSE [SubSeq(stack, 1, Len(stack) - 1) EXCEPT
             ![Len(stack) - 1] = [@ EXCEPT !.acc = @ + val, !.todo = Tail(@)]]

SetTop(f) == [stack EXCEPT ![Len(stack)] = f]

\* "return val" of do_count; the seed call's value lands in do_parse's total
Return(c, val) ==
    /\ ctxt' = c
    /\ stack' = Pop(val)
    /\ IF Len(stack) = 1
       THEN total' = val /\ pc' = "ret"
       ELSE UNCHANGED << total, pc >>
    /\ tainted' = (tainted \/ c.exhausted)

\* a step inside the frame: the context and the innermost frame change
Step(c, f) ==
    /\ ctxt' = c
    /\ stack' = SetTop(f)
    /\ tainted' = (tainted \/ c.exhausted)
    /\ UNCHANGED << total, pc >>

Fixed == << sent, opts, build, live, null_count, result, res_out, calls, mq, mres,
           pruneVars >>

(***************************************************************************)
(* do_count, one action per stretch of code between two calls.             *)
(***************************************************************************)
\* DoCountEnter without the guard of line 425
DoCountEnterUnguarded ==
    /\ Running /\ Top.pc = "start"
    /\ LET f == Top
           k == Key(f.lw, f.rw, f.le, f.re, f.null_count)
           r == find_table_pointer(ctxt, k, res_out)
       IN  IF r.t # NULL THEN Return(r.ctxt, r.ctxt.table[r.t].count)
           ELSE LET c2 == table_store(r.ctxt, k, 0)
                IN  Step(c2, [f EXCEPT !.t = Len(c2.table), !.pc = "body"])
    /\ UNCHANGED << Fixed, lists >>

\* lines 425-435: the null_count guard, then find the entry or reserve it
DoCountEnter ==
    /\ Running /\ Top.pc = "start"
    /\ LET f == Top
           k == Key(f.lw, f.rw, f.le, f.re, f.null_count)
       IN  IF f.null_count < 0 THEN Return(ctxt, 0)
           ELSE LET r == find_table_pointer(ctxt, k, res_out)
                IN  IF r.t # NULL THEN Return(r.ctxt, r.ctxt.table[r.t].count)
                    ELSE LET c2 == table_store(r.ctxt, k, 0)
                         IN  Step(c2, [f EXCEPT !.t = Len(c2.table), !.pc = "body"])
    /\ UNCHANGED << Fixed, lists >>

\* adjacent_count that forgets the null_count test
adjacent_count_any_cost(le, re, nc) == IF (le = NULL) /\ (re = NULL) THEN 1 ELSE 0

\* lines 441-448: the count of a range between neighbouring words
adjacent_count(le, re, nc) ==
    IF (le = NULL) /\ (re = NULL) /\ (nc = 0) THEN 1 ELSE 0

\* skipped_nulls rounding down
skipped_nulls_floor(n, null_block) == n \div null_block

\* line 459: the null_count of skipping n words, null_block words to a null
skipped_nulls(n, null_block) == (n + null_block - 1) \div null_block

\* lines 437-450: lw and rw are neighbouring words
DoCountAdjacent ==
    /\ Running /\ Top.pc = "body"
    /\ Top.rw = 1 + Top.lw
    /\ LET f == Top
           v == adjacent_count(f.le, f.re, f.null_count)
       IN  Return(SetCount(ctxt, f.t, v), v)
    /\ UNCHANGED << Fixed, lists >>

\* lines 452-470: no boundary connectors, islands not allowed, not the wall
DoCountNoIslands ==
    /\ Running /\ Top.pc = "body"
    /\ Top.rw # 1 + Top.lw
    /\ Top.le = NULL /\ Top.re = NULL
    /\ ~ctxt.islands_ok /\ Top.lw # -1
    /\ LET f == Top
           v == IF f.null_count = skipped_nulls(f.rw - f.lw - 1, ctxt.null_block)
                THEN 1 ELSE 0
       IN  Return(SetCount(ctxt, f.t, v), v)
    /\ UNCHANGED << Fixed, lists >>

\* lines 471-477: no boundary connectors and no nulls left
DoCountNoNulls ==
    /\ Running /\ Top.pc = "body"
    /\ Top.rw # 1 + Top.lw
    /\ Top.le = NULL /\ Top.re = NULL
    /\ ~(~ctxt.islands_ok /\ Top.lw # -1)
    /\ Top.null_count = 0
    /\ Return(SetCount(ctxt, Top.t, 0), 0)
    /\ UNCHANGED << Fixed, lists >>

\* IslandKeysFrom whose last call neither moves past word lw+1 nor spends
\* a null: it asks for the caller's own key
RECURSIVE IslandKeysNoAdvance(_, _, _, _, _)
IslandKeysNoAdvance(ds, i, w, rw, nc) ==
    IF i > Len(ds) THEN << Key(w - 1, rw, NULL, NULL, nc) >>
    ELSE (IF ds[i].left = NULL THEN << Key(w, rw, ds[i].right, NULL, nc - 1) >> ELSE << >>)
         \o IslandKeysNoAdvance(ds, i + 1, w, rw, nc)

\* IslandKeysFrom without the call that leaves word lw+1 unlinked
RECURSIVE IslandKeysLinkedOnly(_, _, _, _, _)
IslandKeysLinkedOnly(ds, i, w, rw, nc) ==
    IF i > Len(ds) THEN << >>
    ELSE (IF ds[i].left = NULL THEN << Key(w, rw, ds[i].right, NULL, nc - 1) >> ELSE << >>)
         \o IslandKeysLinkedOnly(ds, i + 1, w, rw, nc)

\* the calls of lines 483-490, in order: one per disjunct of word lw+1 that
\* has no left connector, then the one that leaves word lw+1 unlinked
RECURSIVE IslandKeysFrom(_, _, _, _, _)
IslandKeysFrom(ds, i, w, rw, nc) ==
    IF i > Len(ds) THEN << Key(w, rw, NULL, NULL, nc - 1) >>
    ELSE (IF ds[i].left = NULL THEN << Key(w, rw, ds[i].right, NULL, nc - 1) >> ELSE << >>)
         \o IslandKeysFrom(ds, i + 1, w, rw, nc)

\* lines 478-482: word lw+1 starts an island or is a null word
DoCountIslands ==
    /\ Running /\ Top.pc = "body"
    /\ Top.rw # 1 + Top.lw
    /\ Top.le = NULL /\ Top.re = NULL
    /\ ~(~ctxt.islands_ok /\ Top.lw # -1)
    /\ Top.null_count # 0
    /\ LET f == Top
           w == f.lw + 1
       IN  Step(ctxt, [f EXCEPT !.w = w, !.total = 0, !.acc = 0, !.pc = "islands",
                                !.todo = IslandKeysFrom(Disjuncts(w), 1, w, f.rw,
                                                        f.null_count)])
    /\ UNCHANGED << Fixed, lists >>

\* lines 491-493: the island sums are in; store and return
DoCountIslandsDone ==
    /\ Running /\ Top.pc = "islands" /\ Top.todo = << >>
    /\ Return(SetCount(ctxt, Top.t, Top.acc), Top.acc)
    /\ UNCHANGED << Fixed, lists >>

\* DoCountRange whose range, for a null re, also takes the right end rw
DoCountRangeThroughRw ==
    /\ Running /\ Top.pc = "body"
    /\ Top.rw # 1 + Top.lw
    /\ ~(Top.le = NULL /\ Top.re = NULL)
    /\ LET f          == Top
           start_word == IF f.le = NULL THEN f.lw + 1 ELSE Conn(f.le).word
           end_word   == IF f.re = NULL THEN f.rw + 1 ELSE Conn(f.re).word + 1
       IN  Step(ctxt, [f EXCEPT !.w = start_word, !.end_word = end_word, !.total = 0,
                                !.pc = "word"])
    /\ UNCHANGED << Fixed, lists >>

\* lines 496-514: the range of split words
DoCountRange ==
    /\ Running /\ Top.pc = "body"
    /\ Top.rw # 1 + Top.lw
    /\ ~(Top.le = NULL /\ Top.re = NULL)
    /\ LET f          == Top
           start_word == IF f.le = NULL THEN f.lw + 1 ELSE Conn(f.le).word
           end_word   == IF f.re = NULL THEN f.rw ELSE Conn(f.re).word + 1
       IN  Step(ctxt, [f EXCEPT !.w = start_word, !.end_word = end_word, !.total = 0,
                                !.pc = "word"])
    /\ UNCHANGED << Fixed, lists >>

\* lines 516-518: the next split word and its match list
DoCountWord ==
    /\ Running /\ Top.pc = "word" /\ Top.w < Top.end_word
    /\ LET f == Top
       IN  Step(ctxt, [f EXCEPT !.m = form_match_list(f.w, f.le, f.lw, f.re, f.rw),
                                !.mi = 1, !.pc = "disjunct"])
    /\ lists' = lists + 1
    /\ UNCHANGED Fixed

\* lines 608-609: all split words done
DoCountDone ==
    /\ Running /\ Top.pc = "word" /\ ~(Top.w < Top.end_word)
    /\ Return(SetCount(ctxt, Top.t, Top.total), Top.total)
    /\ UNCHANGED << Fixed, lists >>

\* lines 519-525: the next disjunct of the match list
DoCountDisjunct ==
    /\ Running /\ Top.pc = "disjunct" /\ Top.mi <= Len(Top.m)
    /\ Step(ctxt, [Top EXCEPT !.lcost = 0, !.pc = "cost"])
    /\ UNCHANGED << Fixed, lists >>

\* DoCountPutMatchList that does not move on to the next word
DoCountPutMatchListSameWord ==
    /\ Running /\ Top.pc = "disjunct" /\ ~(Top.mi <= Len(Top.m))
    /\ Step(ctxt, [Top EXCEPT !.m = << >>, !.mi = 0, !.pc = "word"])
    /\ lists' = lists - 1
    /\ UNCHANGED Fixed

\* lines 606-607: the match list is used up; put it back, next word
DoCountPutMatchList ==
    /\ Running /\ Top.pc = "disjunct" /\ ~(Top.mi <= Len(Top.m))
    /\ Step(ctxt, [Top EXCEPT !.m = << >>, !.mi = 0, !.w = @ + 1, !.pc = "word"])
    /\ lists' = lists - 1
    /\ UNCHANGED Fixed

\* lines 525-540: the next cost split; Lmatch, Rmatch; the left pseudocounts
DoCountCost ==
    /\ Running /\ Top.pc = "cost" /\ Top.lcost < Top.null_count + 1
    /\ LET f      == Top
           d      == CurD(f)
           Lmatch == (f.le # NULL) /\ (d.left # NULL) /\ do_match(f.le, d.left, f.lw, f.w)
           Rmatch == (d.right # NULL) /\ (f.re # NULL) /\ do_match(d.right, f.re, f.w, f.rw)
       IN  Step(ctxt, [f EXCEPT !.Lmatch = Lmatch, !.Rmatch = Rmatch,
                                !.leftcount = 0, !.rightcount = 0, !.acc = 0,
                                !.todo = IF Lmatch THEN LeftKeys(f) ELSE << >>,
                                !.pc = "pseudo_left"])
    /\ UNCHANGED << Fixed, lists >>

\* line 525, 519: the cost splits of this disjunct are done
DoCountCostDone ==
    /\ Running /\ Top.pc = "cost" /\ ~(Top.lcost < Top.null_count + 1)
    /\ Step(ctxt, [Top EXCEPT !.mi = @ + 1, !.pc = "disjunct"])
    /\ UNCHANGED << Fixed, lists >>

PseudoPhases == {"pseudo_left", "pseudo_right", "pseudo_left_only", "pseudo_right_only"}

CountPhases == {"islands", "count_left", "count_right", "count_left_only",
                "count_right_only"}

\* lines 403-409: one pseudocount call of lines 541-564
Pseudocount ==
    /\ Running /\ Top.pc \in PseudoPhases /\ Top.todo # << >>
    /\ LET f == Top
           r == pseudocount(ctxt, Head(f.todo), res_out)
       IN  Step(r.ctxt, [f EXCEPT !.acc = @ + r.count, !.todo = Tail(@)])
    /\ UNCHANGED << Fixed, lists >>

\* lines 545-548: leftcount is summed; the right pseudocounts
PseudoLeftDone ==
    /\ Running /\ Top.pc = "pseudo_left" /\ Top.todo = << >>
    /\ LET f == Top
       IN  Step(ctxt, [f EXCEPT !.leftcount = f.acc, !.acc = 0,
                                !.todo = IF f.Rmatch THEN RightKeys(f) ELSE << >>,
                                !.pc = "pseudo_right"])
    /\ UNCHANGED << Fixed, lists >>

\* lines 553-558: rightcount is summed; pseudototal = leftcount*rightcount
PseudoRightDone ==
    /\ Running /\ Top.pc = "pseudo_right" /\ Top.todo = << >>
    /\ LET f == [Top EXCEPT !.rightcount = Top.acc]
       IN  Step(ctxt, [f EXCEPT !.pseudototal = f.leftcount * f.rightcount, !.acc = 0,
                                !.todo = LeftOnlyKeys(f), !.pc = "pseudo_left_only"])
    /\ UNCHANGED << Fixed, lists >>

\* PseudoLeftOnlyDone that leaves the left-only term out of pseudototal
PseudoLeftOnlySkipped ==
    /\ Running /\ Top.pc = "pseudo_left_only" /\ Top.todo = << >>
    /\ LET f == Top
       IN  Step(ctxt, [f EXCEPT !.acc = 0,
                                !.todo = RightOnlyKeys(f), !.pc = "pseudo_right_only"])
    /\ UNCHANGED << Fixed, lists >>

\* lines 560-562: pseudototal += leftcount * pseudocount(right side unlinked)
PseudoLeftOnlyDone ==
    /\ Running /\ Top.pc = "pseudo_left_only" /\ Top.todo = << >>
    /\ LET f == Top
       IN  Step(ctxt, [f EXCEPT !.pseudototal = @ + f.leftcount * f.acc, !.acc = 0,
                                !.todo = RightOnlyKeys(f), !.pc = "pseudo_right_only"])
    /\ UNCHANGED << Fixed, lists >>

\* lines 564-570: pseudototal is complete; count for real unless it is 0
PseudoTotalDone ==
    /\ Running /\ Top.pc = "pseudo_right_only" /\ Top.todo = << >>
    /\ LET f  == Top
           pt == f.pseudototal + f.rightcount * f.acc
       IN  IF pt # 0
           THEN Step(ctxt, [f EXCEPT !.pseudototal = pt, !.leftcount = 0, !.rightcount = 0,
                                     !.acc = 0,
                                     !.todo = IF f.Lmatch THEN LeftKeys(f) ELSE << >>,
                                     !.pc = "count_left"])
           ELSE Step(ctxt, [f EXCEPT !.pseudototal = pt, !.acc = 0, !.lcost = @ + 1,
                                     !.pc = "cost"])
    /\ UNCHANGED << Fixed, lists >>

\* a recursive call do_count(...) of lines 487, 490, 571-592
DoCountCall ==
    /\ Running /\ Top.pc \in CountPhases /\ Top.todo # << >>
    /\ LET k == Head(Top.todo)
       IN  stack' = Append(stack, Frame(k.lw, k.rw, k.le, k.re, k.cost))
    /\ UNCHANGED << Fixed, lists, ctxt, total, pc, tainted >>

\* lines 575-577: leftcount is summed; the right counts
CountLeftDone ==
    /\ Running /\ Top.pc = "count_left" /\ Top.todo = << >>
    /\ LET f == Top
       IN  Step(ctxt, [f EXCEPT !.leftcount = f.acc, !.acc = 0,
                                !.todo = IF f.Rmatch THEN RightKeys(f) ELSE << >>,
                                !.pc = "count_right"])
    /\ UNCHANGED << Fixed, lists >>

\* lines 582-586: rightcount is summed; total += leftcount*rightcount
CountRightDone ==
    /\ Running /\ Top.pc = "count_right" /\ Top.todo = << >>
    /\ LET f == [Top EXCEPT !.rightcount = Top.acc]
       IN  Step(ctxt, [f EXCEPT !.total = @ + f.leftcount * f.rightcount, !.acc = 0,
                                !.todo = LeftOnlyKeys(f), !.pc = "count_left_only"])
    /\ UNCHANGED << Fixed, lists >>

\* lines 588-590: total += leftcount * do_count(right side unlinked)
CountLeftOnlyDone ==
    /\ Running /\ Top.pc = "count_left_only" /\ Top.todo = << >>
    /\ LET f == Top
       IN  Step(ctxt, [f EXCEPT !.total = @ + f.leftcount * f.acc, !.acc = 0,
                                !.todo = RightOnlyKeys(f), !.pc = "count_right_only"])
    /\ UNCHANGED << Fixed, lists >>

\* lines 592-604: total += rightcount * do_count(left side unlinked), then
\* the overflow check; without overflow on to the next cost split
CountTotalDone ==
    /\ Running /\ Top.pc = "count_right_only" /\ Top.todo = << >>
    /\ LET f == Top
           t == f.total + f.rightcount * f.acc
       IN  /\ ~(INT_MAX < t)
           /\ Step(ctxt, [f EXCEPT !.total = t, !.acc = 0, !.lcost = @ + 1, !.pc = "cost"])
    /\ UNCHANGED << Fixed, lists >>

\* CountOverflow returning without put_match_list
CountOverflowKeepsList ==
    /\ Running /\ Top.pc = "count_right_only" /\ Top.todo = << >>
    /\ LET f == Top
           t == f.total + f.rightcount * f.acc
       IN  /\ INT_MAX < t
           /\ Return(SetCount(ctxt, f.t, INT_MAX), INT_MAX)
    /\ UNCHANGED << Fixed, lists >>

\* lines 596-602: overflow: store INT_MAX, put the match list back, return
CountOverflow ==
    /\ Running /\ Top.pc = "count_right_only" /\ Top.todo = << >>
    /\ LET f == Top
           t == f.total + f.rightcount * f.acc
       IN  /\ INT_MAX < t
           /\ Return(SetCount(ctxt, f.t, INT_MAX), INT_MAX)
    /\ lists' = lists - 1
    /\ UNCHANGED Fixed

(***************************************************************************)
(* The context's life and do_parse.                                        *)
(***************************************************************************)
\* mq and mres while no matcher has been called
NoQuery == [a |-> NULL, b |-> NULL, p |-> NULL]

NoResult ==
    [done |-> FALSE, fat |-> FALSE, fat_swap |-> FALSE, thin |-> FALSE,
     thin_swap |-> FALSE, wordtag |-> FALSE]

\* the disjunct lists and the pruning pass while nothing looks at them
NoPrune ==
    /\ word_d = << >>
    /\ d_next = << >>
    /\ d_marked = << >>
    /\ freed = << >>
    /\ deletable = {}
    /\ mstack = << >>

\* alloc_count_context(sent_length), lines 960-967, for the sentence s
Allocated(s) == init_table(ZeroContext, SentenceAt(s).length)

AllocCountContext ==
    /\ ~live
    /\ \E s \in 1 .. NumSentences, o \in [islands_ok : BOOLEAN] :
          /\ sent' = s
          /\ opts' = o
          /\ ctxt' = Allocated(s)
    /\ live' = TRUE
    /\ UNCHANGED << build, stack, pc, null_count, total, result, res_out, calls,
                    tainted, lists, matchVars, pruneVars >>

\* free_count_context, lines 969-973; the caller's history starts afresh
FreeCountContext ==
    /\ live /\ pc = "idle"
    /\ ctxt' = [free_table(ctxt) EXCEPT !.log2_table_size = 0, !.exhausted = FALSE]
    /\ live' = FALSE
    /\ calls' = 0 /\ tainted' = FALSE /\ result' = 0 /\ null_count' = 0 /\ total' = 0
    /\ UNCHANGED << sent, opts, build, stack, pc, res_out, lists, matchVars, pruneVars >>

\* do_parse_enter with the exhausted flag cleared instead of polled
do_parse_enter_cleared(c, o, polled) ==
    [c EXCEPT !.current_resources = "resources",
              !.exhausted = FALSE,
              !.checktimer = 0,
              !.local_sent = "word",
              !.null_block = 1,
              !.islands_ok = o.islands_ok]

\* do_parse, lines 626-638: the context as the seed call finds it; polled is
\* what resources_exhausted(opts->resources) answers
do_parse_enter(c, o, polled) ==
    [c EXCEPT !.current_resources = "resources",
              !.exhausted = polled,
              !.checktimer = 0,
              !.local_sent = "word",
              !.null_block = 1,
              !.islands_ok = o.islands_ok]

\* do_parse_leave that also frees the memo
do_parse_leave_freeing(c) ==
    [free_table(c) EXCEPT !.local_sent = "NULL", !.current_resources = "NULL",
                          !.checktimer = 0]

\* do_parse, lines 642-644: the context do_parse leaves behind
do_parse_leave(c) ==
    [c EXCEPT !.local_sent = "NULL", !.current_resources = "NULL", !.checktimer = 0]

\* do_parse, lines 626-640: set the context up and make the seed call
DoParseWith(nc) ==
    /\ live /\ pc = "idle" /\ calls < MaxCalls
    /\ null_count' = nc
    /\ stack' = << Frame(-1, S.length, NULL, NULL, nc + 1) >>
    /\ ctxt' = do_parse_enter(ctxt, opts, res_out)
    /\ pc' = "count"
    /\ calls' = calls + 1
    /\ tainted' = (tainted \/ res_out)
    /\ UNCHANGED << sent, opts, build, live, total, result, res_out, lists, matchVars, pruneVars >>

\* do_parse as its callers use it: null_count counts words, so it is not
\* negative
DoParseBegin == \E nc \in 0 .. MaxNull : DoParseWith(nc)

\* do_parse, lines 642-645: the seed call has returned
DoParseEnd ==
    /\ live /\ pc = "ret"
    /\ ctxt' = do_parse_leave(ctxt)
    /\ result' = total
    /\ pc' = "idle"
    /\ UNCHANGED << sent, opts, build, live, stack, null_count, total, res_out, calls,
                    tainted, lists, matchVars, pruneVars >>

\* the resources of opts->resources run out: resources_exhausted answers
\* TRUE from now on
ResourcesRunOut ==
    /\ live /\ ~res_out
    /\ res_out' = TRUE
    /\ UNCHANGED << sent, opts, build, live, ctxt, stack, pc, null_count, total, result,
                    calls, tainted, lists, matchVars, pruneVars >>

\* between two do_parse calls the caller resets the resources (or passes
\* options with other resources)
ResourcesReset ==
    /\ live /\ pc = "idle" /\ res_out
    /\ res_out' = FALSE
    /\ UNCHANGED << sent, opts, build, live, ctxt, stack, pc, null_count, total, result,
                    calls, tainted, lists, matchVars, pruneVars >>

Init ==
    /\ sent \in 1 .. NumSentences
    /\ opts \in [islands_ok : BOOLEAN]
    /\ build \in BOOLEAN
    /\ live = TRUE
    /\ ctxt = Allocated(sent)
    /\ stack = << >>
    /\ pc = "idle"
    /\ null_count = 0
    /\ total = 0
    /\ result = 0
    /\ res_out = FALSE
    /\ calls = 0
    /\ tainted = FALSE
    /\ lists = 0
    /\ mq = NoQuery
    /\ mres = NoResult
    /\ NoPrune

Next ==
    \/ AllocCountContext
    \/ FreeCountContext
    \/ DoParseBegin
    \/ DoParseEnd
    \/ ResourcesRunOut
    \/ ResourcesReset
    \/ DoCountEnter
    \/ DoCountAdjacent
    \/ DoCountNoIslands
    \/ DoCountNoNulls
    \/ DoCountIslands
    \/ DoCountIslandsDone
    \/ DoCountRange
    \/ DoCountWord
    \/ DoCountDone
    \/ DoCountDisjunct
    \/ DoCountPutMatchList
    \/ DoCountCost
    \/ DoCountCostDone
    \/ Pseudocount
    \/ PseudoLeftDone
    \/ PseudoRightDone
    \/ PseudoLeftOnlyDone
    \/ PseudoTotalDone
    \/ DoCountCall
    \/ CountLeftDone
    \/ CountRightDone
    \/ CountLeftOnlyDone
    \/ CountTotalDone
    \/ CountOverflow

Spec == Init /\ [][Next]_vars

\* the steps of a running do_parse: do_count's, and do_parse's return
DoParseStep ==
    \/ DoCountEnter \/ DoCountAdjacent \/ DoCountNoIslands \/ DoCountNoNulls
    \/ DoCountIslands \/ DoCountIslandsDone \/ DoCountRange \/ DoCountWord
    \/ DoCountDone \/ DoCountDisjunct \/ DoCountPutMatchList \/ DoCountCost
    \/ DoCountCostDone \/ Pseudocount \/ PseudoLeftDone \/ PseudoRightDone
    \/ PseudoLeftOnlyDone \/ PseudoTotalDone \/ DoCountCall \/ CountLeftDone
    \/ CountRightDone \/ CountLeftOnlyDone \/ CountTotalDone \/ CountOverflow
    \/ DoParseEnd

\* the first do_parse on a count context, with any int for null_count, the
\* negative ones included: termination and the guard of line 425 are
\* checked call by call, and a later call on the same context differs only
\* in the memo it finds, which answers more lookups at once
DoParseBeginFirst ==
    /\ calls = 0
    /\ \E nc \in (-2 - MaxNull) .. MaxNull : DoParseWith(nc)

NextLive ==
    \/ AllocCountContext
    \/ FreeCountContext
    \/ DoParseBeginFirst
    \/ DoParseEnd
    \/ ResourcesRunOut
    \/ ResourcesReset
    \/ DoCountEnter
    \/ DoCountAdjacent
    \/ DoCountNoIslands
    \/ DoCountNoNulls
    \/ DoCountIslands
    \/ DoCountIslandsDone
    \/ DoCountRange
    \/ DoCountWord
    \/ DoCountDone
    \/ DoCountDisjunct
    \/ DoCountPutMatchList
    \/ DoCountCost
    \/ DoCountCostDone
    \/ Pseudocount
    \/ PseudoLeftDone
    \/ PseudoRightDone
    \/ PseudoLeftOnlyDone
    \/ PseudoTotalDone
    \/ DoCountCall
    \/ CountLeftDone
    \/ CountRightDone
    \/ CountLeftOnlyDone
    \/ CountTotalDone
    \/ CountOverflow

\* the thread inside do_parse keeps running: it is single-threaded code
\* without blocking calls, so an enabled step is eventually taken
SpecLive == Init /\ [][NextLive]_vars /\ WF_vars(DoParseStep)

(***************************************************************************)
(* SpecMatch: the matchers applied to bounded connectors and positions.    *)
(***************************************************************************)
RECURSIVE SeqsUpTo(_, _)
SeqsUpTo(chars, n) ==
    IF n = 0 THEN {<< >>}
    ELSE LET shorter == SeqsUpTo(chars, n - 1)
         IN  shorter \cup {Append(q, c) : q \in shorter, c \in chars}

\* a connector string: one upper-case letter and a lower-case suffix
StringsUpTo(n) == {<< h >> \o tail : h \in UpperChars, tail \in SeqsUpTo(LowerChars, n)}

\* aw < bw; ed is effective_dist[aw][bw], at most the number of words crossed
MatchPositions ==
    {p \in [aw : {0}, bw : 1 .. MaxLimit, ed : 1 .. MaxLimit] : p.ed <= p.bw - p.aw}

\* the strings and priorities vary; labels agree and no length limit binds
StringQueries ==
    [a : [string : StringsUpTo(MaxTailLen), label : {0}, priority : Priorities,
          length_limit : {MaxLimit}],
     b : [string : StringsUpTo(MaxTailLen), label : {0}, priority : Priorities,
          length_limit : {MaxLimit}],
     p : {[aw |-> 0, bw |-> 1, ed |-> 1]}]

\* the labels, length limits and positions vary, over the shorter strings
LimitQueries ==
    [a : [string : StringsUpTo(MaxTailLen - 1), label : {0}, priority : Priorities,
          length_limit : 1 .. MaxLimit],
     b : [string : StringsUpTo(MaxTailLen - 1), label : {0, 1}, priority : Priorities,
          length_limit : 1 .. MaxLimit],
     p : MatchPositions]

MatchQueries == StringQueries \cup LimitQueries

MatchInit ==
    /\ sent = 1
    /\ opts = [islands_ok |-> FALSE]
    /\ build = FALSE
    /\ live = FALSE
    /\ ctxt = ZeroContext
    /\ stack = << >>
    /\ pc = "idle"
    /\ null_count = 0
    /\ total = 0
    /\ result = 0
    /\ res_out = FALSE
    /\ calls = 0
    /\ tainted = FALSE
    /\ lists = 0
    /\ mq \in MatchQueries
    /\ mres = NoResult
    /\ NoPrune

\* call the matchers on (a, b) and on (b, a) at the positions p; the SAT
\* encoder's connectors also carry their word's hier_depth
ApplyMatch ==
    /\ ~mres.done
    /\ \E h1 \in 0 .. 1, h2 \in 0 .. 1, same_alt \in BOOLEAN :
          LET a == mq.a
              b == mq.b
              p == mq.p
          IN  mres' = [done |-> TRUE,
                       fat      |-> fat_do_match(a, b, p.aw, p.bw, p.ed),
                       fat_swap |-> fat_do_match(b, a, p.aw, p.bw, p.ed),
                       thin     |-> thin_do_match(a, b, p.aw, p.bw),
                       thin_swap |-> thin_do_match(b, a, p.aw, p.bw),
                       wordtag  |-> WordTag_match(p.aw, a @@ [hier_depth |-> h1], p.bw,
                                                  b @@ [hier_depth |-> h2], same_alt)]
    /\ UNCHANGED << parseVars, mq, pruneVars >>

MatchNext == ApplyMatch

SpecMatch == MatchInit /\ [][MatchNext]_vars

(***************************************************************************)
(* SpecTable: alloc_count_context and free_count_context for every         *)
(* sent_length hint up to MaxSentLen; mq holds the hint.                   *)
(***************************************************************************)
TableInit ==
    /\ sent = 1
    /\ opts = [islands_ok |-> FALSE]
    /\ build = FALSE
    /\ live = FALSE
    /\ ctxt = ZeroContext
    /\ stack = << >>
    /\ pc = "idle"
    /\ null_count = 0
    /\ total = 0
    /\ result = 0
    /\ res_out = FALSE
    /\ calls = 0
    /\ tainted = FALSE
    /\ lists = 0
    /\ mq \in [sent_length : 0 .. MaxSentLen]
    /\ mres = NoResult
    /\ NoPrune

\* alloc_count_context(sent_length), lines 960-967
TableAlloc ==
    /\ ~live
    /\ ctxt' = init_table(ZeroContext, mq.sent_length)
    /\ live' = TRUE
    /\ UNCHANGED << sent, opts, build, stack, pc, null_count, total, result, res_out,
                    calls, tainted, lists, matchVars, pruneVars >>

\* free_count_context, lines 969-973
TableFree ==
    /\ live
    /\ ctxt' = [free_table(ctxt) EXCEPT !.log2_table_size = 0, !.exhausted = FALSE]
    /\ live' = FALSE
    /\ UNCHANGED << sent, opts, build, stack, pc, null_count, total, result, res_out,
                    calls, tainted, lists, matchVars, pruneVars >>

TableNext == TableAlloc \/ TableFree

SpecTable == TableInit /\ [][TableNext]_vars

(***************************************************************************)
(* The do_count recursion evaluated without the memo: every sub-problem is *)
(* counted afresh, nothing is looked up and nothing is pruned.  With sat   *)
(* the overflow check of lines 596-602 is applied where the code applies   *)
(* it; without it the value is the exact number of linkages.               *)
(***************************************************************************)
RootKey(nc) == Key(-1, S.length, NULL, NULL, nc + 1)

\* the frame of key k standing at split word w, disjunct di, cost split lcost
AtSplit(k, w, di, lcost) ==
    [Frame(k.lw, k.rw, k.le, k.re, k.cost) EXCEPT
        !.w = w, !.m = << di >>, !.mi = 1, !.lcost = lcost]

\* the (w, d, lcost) iterations of lines 516-525, in the order of the loops
RECURSIVE CostSplits(_, _, _, _)
CostSplits(k, w, di, lcost) ==
    IF lcost > k.cost THEN << >>
    ELSE << AtSplit(k, w, di, lcost) >> \o CostSplits(k, w, di, lcost + 1)

RECURSIVE DisjunctSplits(_, _, _, _)
DisjunctSplits(k, w, m, mi) ==
    IF mi > Len(m) THEN << >>
    ELSE CostSplits(k, w, m[mi], 0) \o DisjunctSplits(k, w, m, mi + 1)

RECURSIVE WordSplits(_, _, _)
WordSplits(k, w, end_word) ==
    IF ~(w < end_word) THEN << >>
    ELSE DisjunctSplits(k, w, form_match_list(w, k.le, k.lw, k.re, k.rw), 1)
         \o WordSplits(k, w + 1, end_word)

Splits(k) ==
    WordSplits(k, IF k.le = NULL THEN k.lw + 1 ELSE Conn(k.le).word,
                  IF k.re = NULL THEN k.rw ELSE Conn(k.re).word + 1)

RECURSIVE Count(_, _)
RECURSIVE SumCounts(_, _, _)
RECURSIVE SplitLoop(_, _, _, _)

SumCounts(sat, keys, i) ==
    IF i > Len(keys) THEN 0 ELSE Count(sat, keys[i]) + SumCounts(sat, keys, i + 1)

\* lines 569-593 for one split: what the split adds to total
SplitCount(sat, f0) ==
    LET d      == CurD(f0)
        Lmatch == (f0.le # NULL) /\ (d.left # NULL) /\ do_match(f0.le, d.left, f0.lw, f0.w)
        Rmatch == (d.right # NULL) /\ (f0.re # NULL) /\ do_match(d.right, f0.re, f0.w, f0.rw)
        l      == IF Lmatch THEN SumCounts(sat, LeftKeys(f0), 1) ELSE 0
        r      == IF Rmatch THEN SumCounts(sat, RightKeys(f0), 1) ELSE 0
        f      == [f0 EXCEPT !.leftcount = l, !.rightcount = r]
    IN  l * r + l * SumCounts(sat, LeftOnlyKeys(f), 1)
              + r * SumCounts(sat, RightOnlyKeys(f), 1)

SplitLoop(sat, splits, i, tot) ==
    IF i > Len(splits) THEN tot
    ELSE LET t == tot + SplitCount(sat, splits[i])
         IN  IF sat /\ INT_MAX < t THEN INT_MAX ELSE SplitLoop(sat, splits, i + 1, t)

Count(sat, k) ==
    IF k.cost < 0 THEN 0
    ELSE IF k.rw = 1 + k.lw
    THEN (IF (k.le = NULL) /\ (k.re = NULL) /\ (k.cost = 0) THEN 1 ELSE 0)
    ELSE IF (k.le = NULL) /\ (k.re = NULL)
    THEN IF ~opts.islands_ok /\ (k.lw # -1)
         THEN (IF k.cost = (k.rw - k.lw - 1) THEN 1 ELSE 0)
         ELSE IF k.cost = 0 THEN 0
         ELSE SumCounts(sat, IslandKeysFrom(Disjuncts(k.lw + 1), 1, k.lw + 1, k.rw, k.cost), 1)
    ELSE SplitLoop(sat, Splits(k), 1, 0)

\* what do_parse(sent, null_count) computes on a fresh table with resources left
MemoFree(k) == Count(TRUE, k)

\* the number of linkages with null_count nulls
Exact(nc) == Count(FALSE, RootKey(nc))

\* do_parse has returned result for null_count and the caller holds the context
Returned == live /\ pc = "idle" /\ calls >= 1

\* do_parse stands at its seed call (line 640): do_count is entered, nothing done
SeedCall == live /\ pc = "count" /\ Len(stack) = 1 /\ stack[1].pc = "start"

\* the key of the innermost do_count activation
TopKey == Key(Top.lw, Top.rw, Top.le, Top.re, Top.null_count)

(***************************************************************************)
(* Properties of the counter (specification Spec).                         *)
(***************************************************************************)

\* C1: the value do_parse returns is never greater than INT_MAX, and it is
\* exactly INT_MAX whenever the exact number of linkages is at least INT_MAX
\* (the seed call's both-boundaries-null summation included).
C1_ReturnSaturates ==
    Returned =>
        /\ result <= INT_MAX
        /\ ((~tainted /\ Exact(null_count) >= INT_MAX) => result = INT_MAX)

\* C2: after do_parse calls during which the resources were never exhausted,
\* every memo entry holds the value the memo-free do_count recursion gives
\* for its key (same saturation rule), and the value returned is that of
\* the root key (-1, length, NULL, NULL, null_count + 1).
C2_MemoIsMemoFree ==
    (Returned /\ ~tainted) =>
        /\ \A i \in 1 .. Len(ctxt.table) :
              ctxt.table[i].count = MemoFree(KeyOf(ctxt.table[i]))
        /\ result = MemoFree(RootKey(null_count))

\* C2 witness: a first call on a fresh table returned a positive count and
\* left entries with zero and with positive counts
C2_Witness ==
    /\ Returned /\ calls = 1 /\ ~tainted
    /\ result >= 1
    /\ \E i, j \in 1 .. Len(ctxt.table) :
          ctxt.table[i].count = 0 /\ ctxt.table[j].count >= 1

\* C3: a do_parse call during which the resources are exhausted returns at
\* most what the call returns when they never are: the truncated count is a
\* lower bound.
C3_ExhaustedIsLowerBound ==
    (Returned /\ ctxt.exhausted) => result <= MemoFree(RootKey(null_count))

\* C3 witness: the resources ran out in the middle of a first call, which
\* returned a positive count smaller than the full one
C3_Witness ==
    /\ Returned /\ calls = 1 /\ ctxt.exhausted
    /\ 0 < result
    /\ result < MemoFree(RootKey(null_count))

\* C4: for any sequence of do_parse calls on one context, a call that
\* returns a non-saturated count different from the exact count leaves the
\* exhausted flag true.
C4_FlagTellsInexact ==
    (Returned /\ result < INT_MAX /\ result # Exact(null_count)) => ctxt.exhausted

\* C5: within one do_parse call exhaustion is a latch: once exhausted is true
\* it stays true until do_parse returns; from then on every lookup that
\* misses (the one lookup that moves checktimer) stores an entry with count
\* 0 for its key, and do_count on a key not in the memo returns 0 at once.
C5_ExhaustionLatch ==
    [][ (live /\ pc # "idle" /\ ctxt.exhausted) =>
          /\ ctxt'.exhausted
          /\ (pc = "count" /\ ctxt'.checktimer # ctxt.checktimer) =>
                /\ Len(ctxt'.table) = Len(ctxt.table) + 1
                /\ ctxt'.table[Len(ctxt'.table)].count = 0
                /\ SubSeq(ctxt'.table, 1, Len(ctxt.table)) = ctxt.table
                /\ (Top.pc = "start") =>
                      /\ KeyOf(ctxt'.table[Len(ctxt'.table)]) = TopKey
                      /\ stack' = Pop(0)
                /\ (Top.pc # "start") =>
                      /\ KeyOf(ctxt'.table[Len(ctxt'.table)]) = Head(Top.todo)
                      /\ Len(stack') = Len(stack)
          /\ (pc = "count" /\ Top.pc = "start" /\ Top.null_count >= 0
                /\ chain_search(ctxt, TopKey) = NULL /\ stack' # stack)
                => stack' = Pop(0)
      ]_vars

\* C5 witness: exhausted in the middle of a call, with counted entries in
\* the memo, a nested do_count is entered on a key the memo does not hold
C5_Witness ==
    /\ live /\ pc = "count" /\ ctxt.exhausted
    /\ Len(stack) >= 2 /\ Top.pc = "start" /\ Top.null_count >= 0
    /\ chain_search(ctxt, TopKey) = NULL
    /\ \E i \in 1 .. Len(ctxt.table) : ctxt.table[i].count >= 1

\* C6: at the seed call do_count(-1, length, NULL, NULL, null_count + 1) the
\* context has checktimer = 0, exhausted = false whatever the resources'
\* state, null_block = 1 and islands_ok equal to the option.
C6_SeedClearsExhausted ==
    SeedCall =>
        /\ stack[1] = Frame(-1, S.length, NULL, NULL, null_count + 1)
        /\ ctxt.checktimer = 0
        /\ ~ctxt.exhausted
        /\ ctxt.null_block = 1
        /\ ctxt.islands_ok = opts.islands_ok

\* C6 as the code has it: the step that makes the seed call leaves
\* checktimer = 0, null_block = 1, islands_ok equal to the option, and
\* exhausted equal to what resources_exhausted answers at that moment.
C6_SeedContext ==
    [][ (pc = "idle" /\ pc' = "count") =>
          /\ stack' = << Frame(-1, S.length, NULL, NULL, null_count' + 1) >>
          /\ ctxt'.checktimer = 0
          /\ ctxt'.exhausted = res_out
          /\ ctxt'.null_block = 1
          /\ ctxt'.islands_ok = opts.islands_ok
          /\ ctxt'.table = ctxt.table
      ]_vars

\* C6 witness: a seed call made with the exhausted flag set
C6_Witness == SeedCall /\ ctxt.exhausted /\ ctxt.checktimer = 0 /\ ctxt.null_block = 1

\* C7: the memo lives for exactly one do_parse call: when the call has
\* returned its entries are released and the table is empty.
C7_MemoEmptyAfterCall == Returned => ctxt.table = << >>

\* C7 as the code has it: do_parse releases nothing.  While the context
\* lives no step removes an entry or changes an entry's key, and the return
\* of do_parse leaves the table as the seed call left it, never empty.
C7_MemoOutlivesCall ==
    [][ (live /\ live') =>
          /\ Len(ctxt'.table) >= Len(ctxt.table)
          /\ \A i \in 1 .. Len(ctxt.table) : KeyOf(ctxt'.table[i]) = KeyOf(ctxt.table[i])
          /\ (pc = "ret" /\ pc' = "idle") =>
                (ctxt'.table = ctxt.table /\ ctxt.table # << >>)
      ]_vars

\* C7 witness: the second do_parse on a context makes its seed call with
\* the entries of the first still in the table
C7_Witness == SeedCall /\ calls = 2 /\ Len(ctxt.table) >= 2

(***************************************************************************)
(* Properties of the matchers (specification SpecMatch).                   *)
(***************************************************************************)
\* the number of words from aw to bw, and the connectors' limits
WordDist == mq.p.bw - mq.p.aw

OverLimit(dist) == dist > mq.a.length_limit \/ dist > mq.b.length_limit

\* C8: a match fails whenever the word distance bw - aw exceeds either
\* connector's length_limit, in both variants of do_match and in
\* WordTag::match, whatever the strings are.
C8_WordDistanceLimits ==
    (mres.done /\ OverLimit(WordDist)) =>
        ~mres.fat /\ ~mres.fat_swap /\ ~mres.thin /\ ~mres.thin_swap /\ ~mres.wordtag

\* C8 as the code has it: do_match without fat linkages and WordTag::match
\* fail when bw - aw exceeds either limit; do_match with fat linkages fails
\* when effective_dist[aw][bw] exceeds either limit.
C8_DistanceLimits ==
    mres.done =>
        /\ OverLimit(WordDist) => (~mres.thin /\ ~mres.thin_swap /\ ~mres.wordtag)
        /\ OverLimit(mq.p.ed) => (~mres.fat /\ ~mres.fat_swap)

\* C8 witness: the words are farther apart than a limit allows and the
\* strings match; only the fat do_match, whose effective distance is within
\* the limits, accepts
C8_Witness ==
    /\ mres.done /\ OverLimit(WordDist) /\ ~OverLimit(mq.p.ed)
    /\ easy_match(mq.a.string, mq.b.string)
    /\ mres.fat /\ ~mres.thin /\ ~mres.wordtag

\* C9: do_match returns false whenever a.label differs from b.label, for all
\* strings, priorities, length limits and positions (both variants).
C9_LabelsMustAgree ==
    (mres.done /\ mq.a.label # mq.b.label) =>
        ~mres.fat /\ ~mres.fat_swap /\ ~mres.thin /\ ~mres.thin_swap

\* C10: with both priorities THIN do_match is symmetric in its connectors;
\* past the upper-case head, "*" on either side matches any character, "^"
\* matches only "*", other characters match when equal, and the comparison
\* stops where the shorter string ends.
C10_ThinSymmetric ==
    (mres.done /\ mq.a.priority = THIN_priority /\ mq.b.priority = THIN_priority) =>
        /\ mres.fat = mres.fat_swap
        /\ mres.fat =
              /\ mq.a.label = mq.b.label
              /\ ~OverLimit(mq.p.ed)
              /\ mq.a.string[1] = mq.b.string[1]
              /\ \A i \in 2 .. Min2(Len(mq.a.string), Len(mq.b.string)) :
                    \/ mq.a.string[i] = "*"
                    \/ mq.b.string[i] = "*"
                    \/ (mq.a.string[i] = mq.b.string[i] /\ mq.a.string[i] # "^")

\* C10 witness: two THIN connectors with different strings, "^" facing "*",
\* match in both orders
C10_Witness ==
    /\ mres.done /\ mq.a.priority = THIN_priority /\ mq.b.priority = THIN_priority
    /\ mq.a.string # mq.b.string
    /\ \E i \in 2 .. Min2(Len(mq.a.string), Len(mq.b.string)) :
          mq.a.string[i] = "^" /\ mq.b.string[i] = "*"
    /\ mres.fat /\ mres.fat_swap

\* the queries with a of UP priority and b of DOWN priority, labels equal
\* and the effective distance within both limits
UpDownQueries ==
    {q \in MatchQueries :
        /\ q.a.priority = UP_priority /\ q.b.priority = DOWN_priority
        /\ q.a.label = q.b.label
        /\ q.p.ed <= q.a.length_limit /\ q.p.ed <= q.b.length_limit}

\* C11: do_match is directional for UP/DOWN pairs: there are connectors a of
\* UP priority and b of DOWN priority (same label, within the length limits)
\* for which do_match(a, b, i, j) differs from do_match(b, a, i, j).
C11_UpDownDirectional ==
    (mres.done /\ mq \in UpDownQueries) =>
        \E q \in UpDownQueries :
            fat_do_match(q.a, q.b, q.p.aw, q.p.bw, q.p.ed)
                # fat_do_match(q.b, q.a, q.p.aw, q.p.bw, q.p.ed)

\* C11 as the code has it: do_match gives the same answer with its connector
\* arguments swapped for every pair of priorities.  What is directional is
\* the role of the priorities: past the head, a character pair matches when
\* the characters are equal, the UP connector has "*" or the DOWN connector
\* has "^", whichever argument each of them is.
C11_SwapSymmetric ==
    mres.done =>
        /\ mres.fat = mres.fat_swap
        /\ (mq \in UpDownQueries) =>
              mres.fat =
                 /\ mq.a.string[1] = mq.b.string[1]
                 /\ \A i \in 2 .. Min2(Len(mq.a.string), Len(mq.b.string)) :
                       \/ mq.a.string[i] = mq.b.string[i]
                       \/ mq.a.string[i] = "*"
                       \/ mq.b.string[i] = "^"

\* C11 witness: an UP connector with "*" facing a DOWN connector with a
\* letter matches, and matches with the arguments swapped
C11_Witness ==
    /\ mres.done /\ mq \in UpDownQueries
    /\ Len(mq.a.string) >= 2 /\ Len(mq.b.string) >= 2
    /\ mq.a.string[2] = "*" /\ mq.b.string[2] = "a"
    /\ mres.fat /\ mres.fat_swap

(***************************************************************************)
(* Properties of do_count's cases (specification Spec).                    *)
(***************************************************************************)
\* largest null_block the arithmetic of line 459 is evaluated with
MaxBlock == 3

\* the innermost do_count has reserved its entry and stands at line 437
AtBody == live /\ pc = "count" /\ stack # << >> /\ Top.pc = "body"

LinkOverShape ==
    /\ S.length >= 2
    /\ \E a, z \in 1 .. Len(S.conn) :
          /\ S.word[1] = << Dj(NULL, a) >>
          /\ S.word[S.length] = << Dj(z, NULL) >>
          /\ Conn(a).string = << "S" >> /\ ~Conn(a).multi /\ Conn(a).next = NULL
          /\ Conn(z).string = << "S" >> /\ ~Conn(z).multi /\ Conn(z).next = NULL
    /\ \A w \in 2 .. S.length - 1 : S.word[w] = << Dj(NULL, NULL) >>

\* C14: with islands_ok false and null_block 1, on a sentence of n >= 2 words
\* whose first word has the single disjunct right=[S+], whose last word has
\* the single disjunct left=[S-] and whose other words have no connectors,
\* do_parse with null_count = n - 2 returns 1 when both connectors' length
\* limits are at least n - 1 and 0 when either is smaller.
C14_LinkOverNulls ==
    (Returned /\ ~tainted /\ ~opts.islands_ok /\ ctxt.null_block = 1
       /\ LinkOverShape /\ null_count = S.length - 2) =>
        LET a == S.word[1][1].right
            z == S.word[S.length][1].left
        IN  result = IF Conn(a).length_limit >= S.length - 1
                         /\ Conn(z).length_limit >= S.length - 1
                      THEN 1 ELSE 0

\* C14 witness: three words, the limits reach across the middle word, and
\* do_parse with null_count = 1 has returned 1
C14_Witness ==
    /\ Returned /\ ~tainted /\ ~opts.islands_ok /\ LinkOverShape
    /\ S.length = 3 /\ null_count = 1
    /\ Conn(S.word[1][1].right).length_limit >= 2
    /\ Conn(S.word[3][1].left).length_limit >= 2
    /\ result = 1

\* the sentence is [A: {right=[S+, multi]}, then words {left=[S-]}] with no
\* length limit shorter than the sentence
MultiStarShape ==
    /\ S.length >= 2
    /\ \E a \in 1 .. Len(S.conn) :
          /\ S.word[1] = << Dj(NULL, a) >>
          /\ Conn(a).string = << "S" >> /\ Conn(a).multi /\ Conn(a).next = NULL
          /\ Conn(a).length_limit >= S.length - 1
    /\ \A w \in 2 .. S.length :
          \E z \in 1 .. Len(S.conn) :
             /\ S.word[w] = << Dj(z, NULL) >>
             /\ Conn(z).string = << "S" >> /\ ~Conn(z).multi /\ Conn(z).next = NULL
             /\ Conn(z).length_limit >= S.length - 1

\* C15: a multi connector stays available after linking: with islands_ok
\* false and null_count = 0, on a sentence whose first word has the single
\* disjunct right=[S+, multi] and whose m >= 1 following words each have the
\* single disjunct left=[S-], do_parse returns exactly 1.
C15_MultiLinksAll ==
    (Returned /\ ~tainted /\ ~opts.islands_ok /\ MultiStarShape /\ null_count = 0)
        => result = 1

\* C15 witness: the multi S+ of the first word has linked to both following
\* words and do_parse has returned 1
C15_Witness ==
    /\ Returned /\ ~tainted /\ ~opts.islands_ok /\ MultiStarShape
    /\ S.length = 3 /\ null_count = 0
    /\ result = 1

\* C16: for a fixed sentence with islands_ok true (fresh table, no
\* exhaustion, no saturation) the count is monotone in the null budget:
\* do_parse with null_count = k is at most do_parse with null_count = k + 1,
\* for every k >= 0.
C16_MonotoneInNulls ==
    (Returned /\ calls = 1 /\ ~tainted /\ opts.islands_ok
       /\ result < INT_MAX /\ MemoFree(RootKey(null_count + 1)) < INT_MAX)
        => result <= MemoFree(RootKey(null_count + 1))

\* C16 as the code has it: the count is not monotone.  do_parse counts the
\* linkages that spend exactly null_count + 1 units, one per unlinked word or
\* island start.  With islands_ok true, null_count = length - 1 always
\* counts at least the linkage that leaves every word unlinked, and any
\* larger null_count cannot be spent: the count is 0.
C16_ExactNullBudget ==
    (Returned /\ calls = 1 /\ ~tainted /\ opts.islands_ok) =>
        /\ (null_count = S.length - 1) => result >= 1
        /\ (null_count >= S.length) => result = 0
        /\ \A k \in S.length .. S.length + MaxNull : MemoFree(RootKey(k)) = 0

\* C16 witness: with islands allowed do_parse(length - 1) has returned a
\* positive count, and do_parse(length) on a fresh table gives 0
C16_Witness ==
    /\ Returned /\ calls = 1 /\ ~tainted /\ opts.islands_ok
    /\ null_count = S.length - 1
    /\ result >= 1
    /\ MemoFree(RootKey(null_count + 1)) = 0

(***************************************************************************)
(* Properties of the memo table (specification SpecTable).                 *)
(***************************************************************************)
\* C17: init_table sizes the memo as table_size = 2^shift with
\* log2_table_size = shift, where shift is 12 for sentence lengths below 10,
\* 12 + floor(length / 6) from 10 on, and at most 24; the table starts with
\* every bucket empty.
C17_TableSize ==
    live =>
        LET n     == mq.sent_length
            shift == IF n < 10 THEN 12
                     ELSE IF 12 + (n \div 6) > 24 THEN 24 ELSE 12 + (n \div 6)
        IN  /\ ctxt.table_size = 2 ^ shift
            /\ ctxt.log2_table_size = shift
            /\ ctxt.has_table
            /\ ctxt.table = << >>

\* C17 witness: a context allocated for a sentence long enough for the cap
C17_Witness ==
    /\ live /\ 12 + (mq.sent_length \div 6) > 24
    /\ ctxt.log2_table_size = 24 /\ ctxt.table_size = 2 ^ 24

(***************************************************************************)
(* Properties of the tentative entries (specification Spec).               *)
(***************************************************************************)
\* C18: every do_count frame that reserved a memo entry (stored with the
\* tentative count 0 because the key was absent) writes its final count into
\* that entry before it returns, on every return path, and returns the
\* value it stored.
C18_FinalCountStored ==
    [][ (live /\ pc = "count" /\ Len(stack') < Len(stack) /\ Top.pc # "start") =>
          /\ Top.t # NULL
          /\ KeyOf(ctxt.table[Top.t]) = TopKey
          /\ ctxt.table[Top.t].count = 0
          /\ ctxt'.table = [ctxt.table EXCEPT ![Top.t].count = ctxt'.table[Top.t].count]
          /\ stack' = Pop(ctxt'.table[Top.t].count)
          /\ (Len(stack) = 1) => (total' = ctxt'.table[Top.t].count)
      ]_vars

\* C18 witness: a frame with a left boundary connector has left through the
\* overflow return and its entry holds INT_MAX
C18_Witness ==
    /\ live /\ ~tainted
    /\ \E i \in 1 .. Len(ctxt.table) :
          /\ ctxt.table[i].le # NULL
          /\ ctxt.table[i].count = INT_MAX
          /\ \A n \in 1 .. Len(stack) : stack[n].t # i

\* the entries reserved by the do_count frames that have not returned yet
Tentative == {stack[n].t : n \in 1 .. Len(stack)} \ {NULL}

\* the keys the innermost frame is about to look up: its own on entry, then
\* the sub-problems queued for pseudocount or do_count
PendingLookups ==
    IF stack = << >> THEN {}
    ELSE IF Top.pc = "start" THEN {TopKey}
    ELSE {Top.todo[i] : i \in 1 .. Len(Top.todo)}

\* C19: no tentative entry is ever read by another frame: whenever a lookup
\* made by do_count or by pseudocount hits an entry, the frame that reserved
\* it has returned (or exhaustion stored it as a zero).
C19_TentativeNeverRead ==
    (live /\ pc = "count") =>
        \A k \in PendingLookups : chain_search(ctxt, k) \notin Tentative

\* C19 witness: a nested do_count is entered on a key whose entry a returned
\* frame left with a positive count, while other frames hold tentative entries
C19_Witness ==
    /\ live /\ pc = "count" /\ ~tainted
    /\ Len(stack) >= 2 /\ Top.pc = "start"
    /\ chain_search(ctxt, TopKey) # NULL
    /\ chain_search(ctxt, TopKey) \notin Tentative
    /\ ctxt.table[chain_search(ctxt, TopKey)].count >= 1
    /\ Tentative # {}

\* the frame is inside the loop of line 516, at split word f.w
Iterating(f) ==
    /\ f.pc \notin {"start", "body", "islands"}
    /\ ~(f.pc = "word" /\ ~(f.w < f.end_word))

\* C20: every do_count invocation reachable from do_parse has lw < rw, and
\* every split word w it iterates lies strictly between lw and rw, so the
\* sub-ranges (lw,w) and (w,rw) handed to the nested calls are strictly
\* smaller than the caller's.
C20_SplitInsideRange ==
    (live /\ pc = "count") =>
        /\ \A n \in 1 .. Len(stack) :
              /\ stack[n].lw < stack[n].rw
              /\ Iterating(stack[n]) =>
                    (stack[n].lw < stack[n].w /\ stack[n].w < stack[n].rw)
        /\ \A n \in 1 .. Len(stack) - 1 :
              /\ stack[n].lw <= stack[n + 1].lw
              /\ stack[n + 1].rw <= stack[n].rw
              /\ stack[n + 1].rw - stack[n + 1].lw < stack[n].rw - stack[n].lw
              /\ Iterating(stack[n]) =>
                    \/ stack[n + 1].lw = stack[n].lw /\ stack[n + 1].rw = stack[n].w
                    \/ stack[n + 1].lw = stack[n].w /\ stack[n + 1].rw = stack[n].rw

\* C20 witness: a frame whose range starts at its left connector's word has
\* moved past the first split word and a nested call works on the right
\* sub-range (w,rw), while another frame below it iterates as well
C20_Witness ==
    /\ live /\ pc = "count" /\ ~tainted
    /\ \E n \in 1 .. Len(stack) - 1 :
          /\ Iterating(stack[n])
          /\ stack[n].le # NULL
          /\ stack[n].w > stack[n].lw + 1
          /\ stack[n + 1].lw = stack[n].w
          /\ stack[n + 1].rw = stack[n].rw

(***************************************************************************)
(* Properties of pseudocount and of the memo's upkeep (specification Spec) *)
(***************************************************************************)
\* the innermost frame is about to call pseudocount on the key Head(Top.todo)
PseudoCall == Running /\ Top.pc \in PseudoPhases /\ Top.todo # << >>

\* the memo holds an entry with count 0 for the key k
StoredZero(k) ==
    /\ chain_search(ctxt, k) # NULL
    /\ ctxt.table[chain_search(ctxt, k)].count = 0

\* C21 as stated: pseudocount returns 0 if and only if, when it is called,
\* the memo already holds an entry with count 0 for the key; an absent key
\* gives 1.
C21_ZeroIffStoredZero ==
    PseudoCall =>
        ((pseudocount(ctxt, Head(Top.todo), res_out).count = 0)
            <=> StoredZero(Head(Top.todo)))

\* C21 amended: pseudocount returns 0 if and only if the memo holds a zero
\* for the key when it is called, or the key is absent and the lookup finds
\* the resources exhausted (find_table_pointer then stores a zero and that
\* zero is what pseudocount sees); it returns 1 otherwise.
C21_ZeroIffStoredOrExhausted ==
    PseudoCall =>
        LET k == Head(Top.todo)
            r == pseudocount(ctxt, k, res_out)
        IN  /\ r.count \in {0, 1}
            /\ (r.count = 0) <=>
                  \/ StoredZero(k)
                  \/ chain_search(ctxt, k) = NULL /\ r.ctxt.exhausted
            /\ (chain_search(ctxt, k) = NULL /\ ~r.ctxt.exhausted) => r.count = 1

\* C21 witness: pseudocount is called on an absent key with the resources
\* exhausted and answers 0
C21_Witness ==
    /\ PseudoCall
    /\ chain_search(ctxt, Head(Top.todo)) = NULL
    /\ ctxt.exhausted
    /\ pseudocount(ctxt, Head(Top.todo), res_out).count = 0

\* line 567: the innermost frame has summed pseudototal for its split
\* (w, d, lcost) and found it 0, so it skips lines 568-603
PrunedSplit ==
    /\ Running /\ Top.pc = "pseudo_right_only" /\ Top.todo = << >>
    /\ Top.pseudototal + Top.rightcount * Top.acc = 0

\* what a do_count on k would return if the memo answers it; a key the memo
\* does not hold stands for any positive count
StoredCount(k) ==
    IF chain_search(ctxt, k) = NULL THEN 1 ELSE ctxt.table[chain_search(ctxt, k)].count

RECURSIVE SumStored(_, _)
SumStored(keys, i) ==
    IF i > Len(keys) THEN 0 ELSE StoredCount(keys[i]) + SumStored(keys, i + 1)

\* lines 569-593 for the frame's split, each do_count answered by the memo
StoredSplitCount(f0) ==
    LET l == IF f0.Lmatch THEN SumStored(LeftKeys(f0), 1) ELSE 0
        r == IF f0.Rmatch THEN SumStored(RightKeys(f0), 1) ELSE 0
        f == [f0 EXCEPT !.leftcount = l, !.rightcount = r]
    IN  l * r + l * SumStored(LeftOnlyKeys(f), 1) + r * SumStored(RightOnlyKeys(f), 1)

\* C22: pseudocount pruning never drops a non-zero contribution: whenever
\* pseudototal is 0 for a split word, disjunct and cost partition, the real
\* aggregation leftcount*rightcount + left-only term + right-only term that
\* do_count would compute for the same arguments is 0, both as the memo
\* would answer it and, while no lookup has met exhausted resources, as the
\* recursion counts it afresh.
C22_PrunedSplitIsZero ==
    PrunedSplit =>
        /\ StoredSplitCount(Top) = 0
        /\ ~tainted => (SplitCount(TRUE, Top) = 0 /\ SplitCount(FALSE, Top) = 0)

\* C22 witness: a split whose disjunct matches the left boundary connector
\* and for which the pseudocounts of the left side were positive is pruned
\* with the resources never exhausted
C22_Witness ==
    /\ PrunedSplit /\ ~tainted
    /\ Top.Lmatch /\ Top.leftcount > 0

\* the entries whose count is final: stored by a frame that has returned or
\* by an exhausted lookup
Finalized == (1 .. Len(ctxt.table)) \ Tentative

\* C23: once a memo entry's count is final (its reserving frame has
\* returned, or exhaustion stored it as a zero), no later step of the same
\* do_parse call changes the entry's count or removes the entry.
C23_FinalizedStays ==
    [][ (live /\ pc \in {"count", "ret"}) =>
            \A i \in Finalized :
                /\ i <= Len(ctxt'.table)
                /\ ctxt'.table[i] = ctxt.table[i]
      ]_vars

\* C23 witness: an entry finalized with a positive count is still in the
\* memo after a later frame, on words to its right, stored its own entry
C23_Witness ==
    /\ live /\ pc = "count"
    /\ \E i, j \in Finalized :
          /\ i < j
          /\ ctxt.table[i].count >= 1
          /\ ctxt.table[j].lw >= ctxt.table[i].rw

\* the innermost frame is about to call find_table_pointer: do_count at
\* line 427, or pseudocount through table_lookup
Lookup == (Running /\ Top.pc = "start" /\ Top.null_count >= 0) \/ PseudoCall

\* the key of that call
LookupKey == IF Top.pc = "start" THEN TopKey ELSE Head(Top.todo)

\* C24 as stated: every find_table_pointer call increments checktimer by
\* exactly one, whether the key is found or not.
C24_EveryFindCounts ==
    Lookup =>
        find_table_pointer(ctxt, LookupKey, res_out).ctxt.checktimer = ctxt.checktimer + 1

\* C24 amended: checktimer counts the misses: a find_table_pointer call
\* whose chain search does not find the key increments checktimer by exactly
\* one, and a call that finds the key leaves checktimer (and the whole
\* context) as it was.
C24_MissesCount ==
    Lookup =>
        LET r == find_table_pointer(ctxt, LookupKey, res_out)
        IN  IF chain_search(ctxt, LookupKey) = NULL
            THEN r.ctxt.checktimer = ctxt.checktimer + 1
            ELSE r.ctxt = ctxt /\ r.t = chain_search(ctxt, LookupKey)

\* C24 witness: after at least one miss a lookup is about to find its key
C24_Witness ==
    /\ Lookup
    /\ ctxt.checktimer >= 1
    /\ chain_search(ctxt, LookupKey) # NULL
    /\ find_table_pointer(ctxt, LookupKey, res_out).ctxt.checktimer = ctxt.checktimer

\* the frame is between its form_match_list (line 518) and the
\* put_match_list that answers it (line 600 or 606)
HoldsList(f) == f.pc \notin {"start", "body", "islands", "word"}

\* C25: match lists are released on every path: each list got from
\* form_match_list is put back exactly once before its frame moves to the
\* next split word or returns, the INT_MAX return included, so the lists
\* outstanding are exactly those of the frames inside their disjunct loops
\* and none is outstanding when do_parse returns.
C25_MatchListsReleased ==
    /\ (live /\ pc = "count") =>
          lists = Cardinality({n \in 1 .. Len(stack) : HoldsList(stack[n])})
    /\ (live /\ pc \in {"ret", "idle"}) => lists = 0

\* C25 witness: do_parse has returned a saturated count, reached through
\* the early return of lines 596-602, and no list is outstanding
C25_Witness ==
    /\ Returned /\ ~tainted
    /\ result >= INT_MAX
    /\ lists = 0
    /\ \E i \in 1 .. Len(ctxt.table) :
          ctxt.table[i].le # NULL /\ ctxt.table[i].count = INT_MAX

(***************************************************************************)
(* Termination and the null_count guard (specification SpecLive)           *)
(***************************************************************************)
\* C26: do_parse terminates for every sentence, null_count and resource
\* behaviour: once the seed call is made, do_parse eventually comes back to
\* its caller with the recursion stack empty, so every do_count invocation
\* that was entered has returned.
C26_DoParseTerminates ==
    (live /\ pc = "count") ~> (pc = "idle" /\ stack = << >>)

\* C26 witness: do_parse has returned after a recursion that stored at
\* least three sub-problems, on a sentence with a multi connector
C26_Witness ==
    /\ Returned
    /\ Len(ctxt.table) >= 3
    /\ \E w \in 0 .. S.length - 1 : \E i \in 1 .. Len(Disjuncts(w)) :
          Disjuncts(w)[i].right # NULL /\ multi(Disjuncts(w)[i].right)

\* C27: do_count called with null_count < 0 returns 0 and changes nothing:
\* no memo entry is created or modified, checktimer is not incremented and
\* the exhausted flag is unchanged.
C27_NegativeNullCount ==
    [][ (Running /\ Top.pc = "start" /\ Top.null_count < 0 /\ stack' # stack) =>
            /\ ctxt' = ctxt
            /\ stack' = Pop(0)
            /\ lists' = lists
            /\ (Len(stack) = 1) => (total' = 0 /\ pc' = "ret")
      ]_vars

\* C27 witness: the seed call of do_parse(sent, null_count <= -2) has
\* returned 0 on a context that was already exhausted, and the memo got no
\* zero entry for it
C27_Witness ==
    /\ live /\ pc = "ret" /\ stack = << >>
    /\ null_count < -1
    /\ total = 0
    /\ ctxt.exhausted
    /\ ctxt.table = << >>
    /\ ctxt.checktimer = 0

(***************************************************************************)
(* The memo's keys (specification Spec)                                    *)
(***************************************************************************)
\* C28: in every reachable state the memo holds at most one entry per key
\* (lw, rw, le, re, cost): table_store is only ever executed for a key that
\* is absent, on the reserve path of do_count and on the exhaustion path of
\* find_table_pointer, over any sequence of do_parse calls on one context.
C28_OneEntryPerKey ==
    Cardinality({KeyOf(ctxt.table[i]) : i \in 1 .. Len(ctxt.table)}) = Len(ctxt.table)

\* C28 witness: the seed call of a second do_parse on the context is about
\* to look up a key that the first call stored, with the resources exhausted
\* so that a miss would store an entry
C28_Witness ==
    /\ SeedCall /\ calls = 2
    /\ ctxt.exhausted
    /\ Len(ctxt.table) >= 2
    /\ chain_search(ctxt, TopKey) # NULL

(***************************************************************************)
(* SpecDelete: the disjunct lists as linked lists, and                     *)
(* delete_unmarked_disjuncts (lines 865-884) applied to every marking.     *)
(* A Disjunct pointer is a positive number: the disjuncts of word 0 in     *)
(* list order, then those of word 1, and so on; NULL is 0.                 *)
(***************************************************************************)
\* the number of disjuncts on the words before word w
RECURSIVE DBase(_)
DBase(w) == IF w <= 0 THEN 0 ELSE DBase(w - 1) + Len(Disjuncts(w - 1))

\* the pointer to the i-th disjunct of word w, as the lists are built
DAddr(w, i) == DBase(w) + i

DAddrs == 1 .. DBase(S.length)

\* the word a disjunct belongs to, and its place in that word's built list
DWord(a) == CHOOSE w \in 0 .. S.length - 1 : DBase(w) < a /\ a <= DBase(w + 1)

DIndex(a) == a - DBase(DWord(a))

\* sent->word[w].d and Disjunct.next as the earlier stages build them
BuiltWordD == [w \in 0 .. S.length - 1 |-> IF Disjuncts(w) = << >> THEN NULL ELSE DAddr(w, 1)]

BuiltNext == [a \in DAddrs |-> IF DIndex(a) < Len(Disjuncts(DWord(a))) THEN a + 1 ELSE NULL]

\* the heap the list functions work on
Heap == [word_d |-> word_d, d_next |-> d_next, d_marked |-> d_marked, freed |-> freed]

\* free_disjuncts(d): frees d and every disjunct after it in the list
RECURSIVE free_disjuncts(_, _)
free_disjuncts(h, d) ==
    IF d = NULL THEN h
    ELSE free_disjuncts([h EXCEPT !.freed = Append(@, d)], h.d_next[d])

\* the loop of line 873 that frees an unmarked d with its next left in place
RECURSIVE DeleteLoopChained(_, _, _)
DeleteLoopChained(h, d, d_head) ==
    IF d = NULL THEN [h |-> h, d_head |-> d_head]
    ELSE LET dx == h.d_next[d]
         IN  IF h.d_marked[d]
             THEN DeleteLoopChained([h EXCEPT !.d_next[d] = d_head], dx, d)
             ELSE DeleteLoopChained(free_disjuncts(h, d), dx, d_head)

\* lines 873-881: the loop over one word's list, from d on, with the list
\* kept so far headed by d_head
RECURSIVE DeleteLoop(_, _, _)
DeleteLoop(h, d, d_head) ==
    IF d = NULL THEN [h |-> h, d_head |-> d_head]
    ELSE LET dx == h.d_next[d]
         IN  IF h.d_marked[d]
             THEN DeleteLoop([h EXCEPT !.d_next[d] = d_head], dx, d)
             ELSE DeleteLoop(free_disjuncts([h EXCEPT !.d_next[d] = NULL], d), dx, d_head)

\* lines 871-883: the words from w on
RECURSIVE DeleteWords(_, _)
DeleteWords(h, w) ==
    IF ~(w < S.length) THEN h
    ELSE LET r == DeleteLoop(h, h.word_d[w], NULL)
         IN  DeleteWords([r.h EXCEPT !.word_d[w] = r.d_head], w + 1)

delete_unmarked_disjuncts(h) == DeleteWords(h, 0)

\* every sentence, every marking of its disjuncts
DeleteInit ==
    /\ sent \in 1 .. NumSentences
    /\ opts = [islands_ok |-> FALSE]
    /\ build = FALSE
    /\ live = FALSE
    /\ ctxt = ZeroContext
    /\ stack = << >>
    /\ pc = "idle"
    /\ null_count = 0
    /\ total = 0
    /\ result = 0
    /\ res_out = FALSE
    /\ calls = 0
    /\ tainted = FALSE
    /\ lists = 0
    /\ mq = NoQuery
    /\ mres = NoResult
    /\ word_d = BuiltWordD
    /\ d_next = BuiltNext
    /\ d_marked \in [DAddrs -> BOOLEAN]
    /\ freed = << >>
    /\ deletable = {}
    /\ mstack = << >>

\* delete_unmarked_disjuncts(sent)
DeleteCall ==
    /\ pc = "idle"
    /\ LET h == delete_unmarked_disjuncts(Heap)
       IN  /\ word_d' = h.word_d
           /\ d_next' = h.d_next
           /\ d_marked' = h.d_marked
           /\ freed' = h.freed
    /\ pc' = "deleted"
    /\ UNCHANGED << sent, opts, build, live, ctxt, stack, null_count, total, result,
                    res_out, calls, tainted, lists, matchVars, deletable, mstack >>

DeleteNext == DeleteCall

SpecDelete == DeleteInit /\ [][DeleteNext]_vars

\* the list headed by d, as far as fuel disjuncts
RECURSIVE ListFrom(_, _)
ListFrom(d, fuel) ==
    IF d = NULL \/ fuel = 0 THEN << >>
    ELSE << d >> \o ListFrom(d_next[d], fuel - 1)

\* the disjunct list of word w
ListOf(w) == ListFrom(word_d[w], Cardinality(DAddrs) + 1)

\* the disjuncts of word w that are marked, and those that are not, in the
\* order of the built list
MarkedOf(w) ==
    SelectSeq([i \in 1 .. Len(Disjuncts(w)) |-> DAddr(w, i)], LAMBDA a : d_marked[a])

Unmarked == {a \in DAddrs : ~d_marked[a]}

Reverse(q) == [i \in 1 .. Len(q) |-> q[Len(q) + 1 - i]]

\* C30: after delete_unmarked_disjuncts(sent) the disjunct list of every
\* word holds exactly the disjuncts of that word that were marked before the
\* call, each once, in the reverse of their original order; every unmarked
\* disjunct is off the lists and was freed, alone, exactly once.
C30_MarkedKeptReversed ==
    (pc = "deleted") =>
        /\ \A w \in 0 .. S.length - 1 : ListOf(w) = Reverse(MarkedOf(w))
        /\ {freed[i] : i \in 1 .. Len(freed)} = Unmarked
        /\ Len(freed) = Cardinality(Unmarked)

\* C30 witness: a word kept three marked disjuncts, now in reverse order,
\* and lost an unmarked one that stood in the list before a kept one
C30_Witness ==
    /\ pc = "deleted"
    /\ \E w \in 0 .. S.length - 1 :
          /\ Len(MarkedOf(w)) = 3
          /\ ListOf(w) = Reverse(MarkedOf(w))
          /\ \E i \in 1 .. Len(freed) : DWord(freed[i]) = w /\ freed[i] < ListOf(w)[1]

(***************************************************************************)
(* SpecPrune: conjunction_prune (lines 897-956).  The calls of             *)
(* region_valid and mark_region under way are the frames of mstack, with   *)
(* conjunction_prune's own frame at the bottom; a frame's ret holds the    *)
(* value the region_valid call it made has returned.  The memo's cost      *)
(* field is 0 throughout the pass.                                         *)
(***************************************************************************)
\* prune_match(dist, le, re) of prune.c for connectors without priorities
prune_match(dist, a, b) ==
    /\ a.label = b.label
    /\ ~(dist > a.length_limit \/ dist > b.length_limit)
    /\ easy_match(a.string, b.string)

\* lines 680-689
x_prune_match(le, re, lw, rw) == prune_match(effective_dist(lw, rw), Conn(le), Conn(re))

\* ctxt->deletable[lw][rw]: the words strictly between lw and rw may all go
Deletable(lw, rw) == \A w \in (lw + 1) .. (rw - 1) : w \in deletable

\* table_update (lines 388-396): the entry is there; set its count
table_update(c, k, count) ==
    LET f == find_table_pointer(c, k, res_out)
    IN  [f.ctxt EXCEPT !.table[f.t].count = count]

\* no value returned, or none waiting to be looked at
None == -1

\* a frame of region_valid or mark_region, or of conjunction_prune
MarkFrame(k, at) ==
    [lw |-> k.lw, rw |-> k.rw, le |-> k.le, re |-> k.re, null_count |-> 0, lcost |-> 0,
     pc |-> at, w |-> 0, end_word |-> 0, m |-> << >>, mi |-> 0,
     left_valid |-> FALSE, right_valid |-> FALSE, keys |-> << >>, todo |-> << >>,
     ret |-> None]

FrameKey(f) == Key(f.lw, f.rw, f.le, f.re, 0)

MTop == mstack[Len(mstack)]

Pruning == live /\ pc = "prune" /\ mstack # << >>

\* the innermost frame is at the label at
At(at) == Pruning /\ MTop.pc = at

\* the innermost frame is at the label at with its mark_region calls made
MarkAt(at) == At(at) /\ MTop.todo = << >>

\* the value region_valid has returned to the innermost frame
Answered(at) == At(at) /\ MTop.ret # None

PruneFixed ==
    UNCHANGED << sent, opts, build, live, stack, pc, null_count, total, result, res_out,
                 calls, tainted, lists, matchVars, word_d, d_next, freed, deletable >>

\* a step inside the innermost frame
MStep(c, f, marks) ==
    /\ ctxt' = c
    /\ mstack' = [mstack EXCEPT ![Len(mstack)] = f]
    /\ d_marked' = marks
    /\ PruneFixed

MGoto(f) == MStep(ctxt, f, d_marked)

\* the innermost frame becomes f and calls region_valid ("r_start") or
\* mark_region ("start") on the key k
MCall(f, k, at) ==
    /\ mstack' = Append([mstack EXCEPT ![Len(mstack)] = f], MarkFrame(k, at))
    /\ UNCHANGED << ctxt, d_marked >>
    /\ PruneFixed

\* the innermost call returns v to its caller
MReturn(c, v) ==
    /\ ctxt' = c
    /\ mstack' = [SubSeq(mstack, 1, Len(mstack) - 1) EXCEPT ![Len(mstack) - 1].ret = v]
    /\ UNCHANGED d_marked
    /\ PruneFixed

\* d->marked = TRUE for the disjunct the frame's cursor is on
Marked(f) == [d_marked EXCEPT ![DAddr(f.w, f.m[f.mi])] = TRUE]

\* every disjunct of word w, as a cursor like a match list's
AllOf(w) == [i \in 1 .. Len(Disjuncts(w)) |-> i]

\* the first and the last word to split at (lines 712-721, 794-803)
StartWord(f) == IF f.le = NULL THEN f.lw + 1 ELSE Conn(f.le).word

EndWord(f) == IF f.re = NULL THEN f.rw ELSE Conn(f.re).word + 1

\* the condition before the left chain (lines 734, 812)
LeftLinks(f) ==
    (f.le # NULL) /\ (CurD(f).left # NULL) /\ x_prune_match(f.le, CurD(f).left, f.lw, f.w)

\* the condition before the right chain (lines 743, 817)
RightLinks(f) ==
    (CurD(f).right # NULL) /\ (f.re # NULL) /\ x_prune_match(CurD(f).right, f.re, f.w, f.rw)

\* the region right of the disjunct as it is, and the region left of it
RightAsIs(f) == Key(f.w, f.rw, CurD(f).right, f.re, 0)

LeftAsIs(f) == Key(f.lw, f.w, f.le, CurD(f).left, 0)

(***************************************************************************)
(* region_valid, lines 695-758                                             *)
(***************************************************************************)
\* lines 704-721: a hit is returned; a deletable region without connectors
\* is stored as 1; else the words are tried
RegionStart ==
    /\ At("r_start")
    /\ LET f == MTop
           l == table_lookup(ctxt, FrameKey(f), res_out)
       IN  IF l.count >= 0 THEN MReturn(l.ctxt, l.count)
           ELSE IF (f.le = NULL) /\ (f.re = NULL) /\ Deletable(f.lw, f.rw)
           THEN MReturn(table_store(l.ctxt, FrameKey(f), 1), 1)
           ELSE MStep(l.ctxt, [f EXCEPT !.w = StartWord(f), !.end_word = EndWord(f),
                                        !.pc = "r_word"], d_marked)

\* lines 723-727: the next word and its match list
RegionWord ==
    /\ At("r_word") /\ MTop.w < MTop.end_word
    /\ LET f == MTop
       IN  MGoto([f EXCEPT !.m = form_match_list(f.w, f.le, f.lw, f.re, f.rw),
                           !.mi = 1, !.pc = "r_disjunct"])

\* lines 725, 756-757: no word left; table_store(found = 0); return 0
RegionNotFound ==
    /\ At("r_word") /\ ~(MTop.w < MTop.end_word)
    /\ MReturn(table_store(ctxt, FrameKey(MTop), 0), 0)

\* lines 728, 753-754: the match list is used up; put it back, next word
RegionPutMatchList ==
    /\ At("r_disjunct") /\ ~(MTop.mi <= Len(MTop.m))
    /\ MGoto([MTop EXCEPT !.m = << >>, !.mi = 0, !.w = @ + 1, !.pc = "r_word"])

\* lines 728-734: left_valid of the next disjunct starts
RegionLeft ==
    /\ At("r_disjunct") /\ MTop.mi <= Len(MTop.m)
    /\ LET f == [MTop EXCEPT !.left_valid = FALSE, !.right_valid = FALSE]
       IN  IF LeftLinks(f) THEN MGoto([f EXCEPT !.keys = LeftKeys(f), !.pc = "r_left"])
           ELSE MGoto([f EXCEPT !.pc = "r_right_begin"])

\* lines 735-738: the next region_valid call of the chain
RegionLeftCall ==
    /\ At("r_left") /\ MTop.ret = None /\ MTop.keys # << >>
    /\ MCall([MTop EXCEPT !.keys = Tail(@)], Head(MTop.keys), "r_start")

\* lines 734-738: every call of the chain answered 0
RegionLeftInvalid ==
    /\ At("r_left") /\ MTop.ret = None /\ MTop.keys = << >>
    /\ MGoto([MTop EXCEPT !.pc = "r_right_begin"])

\* lines 734-739: an answer other than 0 makes left_valid true, and
\* region_valid(w, rw, d->right, re) is asked
RegionLeftAnswer ==
    /\ Answered("r_left")
    /\ IF MTop.ret # 0
       THEN MCall([MTop EXCEPT !.left_valid = TRUE, !.keys = << >>, !.ret = None,
                               !.pc = "r_right_as_is"],
                  RightAsIs(MTop), "r_start")
       ELSE MGoto([MTop EXCEPT !.ret = None])

\* found = 1; break (lines 740-741, 749-750), then lines 753-757
RegionFound == MReturn(table_store(ctxt, FrameKey(MTop), 1), 1)

\* lines 739-742: the right side valid as it is breaks the loop
RegionRightAsIs ==
    /\ Answered("r_right_as_is")
    /\ IF MTop.ret # 0 THEN RegionFound
       ELSE MGoto([MTop EXCEPT !.ret = None, !.pc = "r_right_begin"])

\* line 743: right_valid starts
RegionRight ==
    /\ At("r_right_begin")
    /\ LET f == MTop
       IN  IF RightLinks(f) THEN MGoto([f EXCEPT !.keys = RightKeys(f), !.pc = "r_right"])
           ELSE MGoto([f EXCEPT !.mi = @ + 1, !.pc = "r_disjunct"])

\* lines 744-747: the next region_valid call of the chain
RegionRightCall ==
    /\ At("r_right") /\ MTop.ret = None /\ MTop.keys # << >>
    /\ MCall([MTop EXCEPT !.keys = Tail(@)], Head(MTop.keys), "r_start")

\* lines 743-752: every call of the chain answered 0; next disjunct
RegionRightInvalid ==
    /\ At("r_right") /\ MTop.ret = None /\ MTop.keys = << >>
    /\ MGoto([MTop EXCEPT !.mi = @ + 1, !.pc = "r_disjunct"])

\* lines 743-748: an answer other than 0 makes right_valid true; found if
\* left_valid, else region_valid(lw, w, le, d->left) is asked
RegionRightAnswer ==
    /\ Answered("r_right")
    /\ IF MTop.ret = 0 THEN MGoto([MTop EXCEPT !.ret = None])
       ELSE IF MTop.left_valid THEN RegionFound
       ELSE MCall([MTop EXCEPT !.right_valid = TRUE, !.keys = << >>, !.ret = None,
                               !.pc = "r_left_as_is"],
                  LeftAsIs(MTop), "r_start")

\* lines 748-752: the left side valid as it is breaks the loop
RegionLeftAsIs ==
    /\ Answered("r_left_as_is")
    /\ IF MTop.ret # 0 THEN RegionFound
       ELSE MGoto([MTop EXCEPT !.ret = None, !.mi = @ + 1, !.pc = "r_disjunct"])

(***************************************************************************)
(* mark_region, lines 767-862                                              *)
(***************************************************************************)
\* line 777: i = region_valid(lw, rw, le, re)
MarkEnter ==
    /\ At("start")
    /\ MCall([MTop EXCEPT !.pc = "entered"], FrameKey(MTop), "r_start")

\* the frame after line 780 (lines 782-803): the island case works through the disjuncts
\* of word lw + 1, the other case through the words to split at
MarkBody(f) ==
    IF (f.le = NULL) /\ (f.re = NULL) /\ ctxt.null_links /\ (f.rw # 1 + f.lw)
    THEN [f EXCEPT !.ret = None, !.w = f.lw + 1, !.m = AllOf(f.lw + 1), !.mi = 1,
                   !.pc = "island"]
    ELSE [f EXCEPT !.ret = None, !.w = StartWord(f), !.end_word = EndWord(f),
                   !.pc = "word"]

\* MarkEntered that goes on for a region already marked
MarkEnteredRemarking ==
    /\ Answered("entered")
    /\ IF MTop.ret = 0 THEN MReturn(ctxt, None)
       ELSE MStep(table_update(ctxt, FrameKey(MTop), 2), MarkBody(MTop), d_marked)

\* lines 778-780: return unless the region is valid and not yet marked;
\* else record it as marked
MarkEntered ==
    /\ Answered("entered")
    /\ IF (MTop.ret = 0) \/ (MTop.ret = 2) THEN MReturn(ctxt, None)
       ELSE MStep(table_update(ctxt, FrameKey(MTop), 2), MarkBody(MTop), d_marked)

\* a call mark_region(...) of lines 787-857, 931, 939
MarkCall ==
    /\ Pruning /\ MTop.todo # << >> /\ MTop.ret = None
    /\ MCall([MTop EXCEPT !.todo = Tail(@)], Head(MTop.todo), "start")

\* lines 784-785: the next disjunct of word lw + 1 in the island case
MarkIsland ==
    /\ MarkAt("island") /\ MTop.mi <= Len(MTop.m)
    /\ IF CurD(MTop).left # NULL THEN MGoto([MTop EXCEPT !.mi = @ + 1])
       ELSE MCall([MTop EXCEPT !.pc = "island_valid"], RightAsIs(MTop), "r_start")

\* lines 785-788: the disjunct is marked and its region too
MarkIslandValid ==
    /\ Answered("island_valid")
    /\ LET f == [MTop EXCEPT !.ret = None, !.mi = @ + 1, !.pc = "island"]
       IN  IF MTop.ret # 0
           THEN MStep(ctxt, [f EXCEPT !.todo = << RightAsIs(MTop) >>], Marked(MTop))
           ELSE MGoto(f)

\* line 790: mark_region(w, rw, NULL, NULL)
MarkIslandRest ==
    /\ MarkAt("island") /\ ~(MTop.mi <= Len(MTop.m))
    /\ MGoto([MTop EXCEPT !.todo = << Key(MTop.w, MTop.rw, NULL, NULL, 0) >>,
                          !.pc = "done"])

\* line 791: return
MarkIslandDone ==
    /\ MarkAt("done")
    /\ MReturn(ctxt, None)

\* lines 805-807: the next split word and its match list
MarkWord ==
    /\ MarkAt("word") /\ MTop.w < MTop.end_word
    /\ LET f == MTop
       IN  MGoto([f EXCEPT !.m = form_match_list(f.w, f.le, f.lw, f.re, f.rw),
                           !.mi = 1, !.pc = "disjunct"])

\* lines 805, 862: all split words done
MarkWordsDone ==
    /\ MarkAt("word") /\ ~(MTop.w < MTop.end_word)
    /\ MReturn(ctxt, None)

\* lines 808, 860: the match list is used up; put it back, next word
MarkPutMatchList ==
    /\ MarkAt("disjunct") /\ ~(MTop.mi <= Len(MTop.m))
    /\ MGoto([MTop EXCEPT !.m = << >>, !.mi = 0, !.w = @ + 1, !.pc = "word"])

\* lines 808-812: left_valid of the next disjunct starts
MarkLeft ==
    /\ MarkAt("disjunct") /\ MTop.mi <= Len(MTop.m)
    /\ LET f == [MTop EXCEPT !.left_valid = FALSE, !.right_valid = FALSE]
       IN  IF LeftLinks(f) THEN MGoto([f EXCEPT !.keys = LeftKeys(f), !.pc = "left"])
           ELSE MGoto([f EXCEPT !.pc = "right_begin"])

\* lines 813-816: the next region_valid call of the chain
MarkLeftCall ==
    /\ At("left") /\ MTop.ret = None /\ MTop.keys # << >>
    /\ MCall([MTop EXCEPT !.keys = Tail(@)], Head(MTop.keys), "r_start")

\* lines 812-816: every call of the chain answered 0
MarkLeftInvalid ==
    /\ At("left") /\ MTop.ret = None /\ MTop.keys = << >>
    /\ MGoto([MTop EXCEPT !.pc = "right_begin"])

\* lines 812-816: an answer other than 0 makes left_valid true
MarkLeftAnswer ==
    /\ Answered("left")
    /\ IF MTop.ret # 0
       THEN MGoto([MTop EXCEPT !.left_valid = TRUE, !.keys = << >>, !.ret = None,
                               !.pc = "right_begin"])
       ELSE MGoto([MTop EXCEPT !.ret = None])

\* line 817: right_valid starts
MarkRight ==
    /\ At("right_begin")
    /\ LET f == MTop
       IN  IF RightLinks(f) THEN MGoto([f EXCEPT !.keys = RightKeys(f), !.pc = "right"])
           ELSE MGoto([f EXCEPT !.pc = "if_left"])

\* lines 818-821: the next region_valid call of the chain
MarkRightCall ==
    /\ At("right") /\ MTop.ret = None /\ MTop.keys # << >>
    /\ MCall([MTop EXCEPT !.keys = Tail(@)], Head(MTop.keys), "r_start")

\* lines 817-821: every call of the chain answered 0
MarkRightInvalid ==
    /\ At("right") /\ MTop.ret = None /\ MTop.keys = << >>
    /\ MGoto([MTop EXCEPT !.pc = "if_left"])

\* lines 817-821: an answer other than 0 makes right_valid true
MarkRightAnswer ==
    /\ Answered("right")
    /\ IF MTop.ret # 0
       THEN MGoto([MTop EXCEPT !.right_valid = TRUE, !.keys = << >>, !.ret = None,
                               !.pc = "if_left"])
       ELSE MGoto([MTop EXCEPT !.ret = None])

\* line 827: left_valid && region_valid(w, rw, d->right, re)
MarkIfLeft ==
    /\ At("if_left")
    /\ IF MTop.left_valid
       THEN MCall([MTop EXCEPT !.pc = "if_left_valid"], RightAsIs(MTop), "r_start")
       ELSE MGoto([MTop EXCEPT !.pc = "if_right"])

\* lines 827-835: the disjunct is marked, then the region right of it and
\* the regions between the left connectors
MarkIfLeftValid ==
    /\ Answered("if_left_valid")
    /\ LET f == [MTop EXCEPT !.ret = None, !.pc = "if_right"]
       IN  IF MTop.ret # 0
           THEN MStep(ctxt, [f EXCEPT !.todo = << RightAsIs(f) >> \o LeftKeys(f)], Marked(f))
           ELSE MGoto(f)

\* line 837: right_valid && region_valid(lw, w, le, d->left)
MarkIfRight ==
    /\ MarkAt("if_right")
    /\ IF MTop.right_valid
       THEN MCall([MTop EXCEPT !.pc = "if_right_valid"], LeftAsIs(MTop), "r_start")
       ELSE MGoto([MTop EXCEPT !.pc = "if_both"])

\* lines 837-845: the disjunct is marked, then the region left of it and
\* the regions between the right connectors
MarkIfRightValid ==
    /\ Answered("if_right_valid")
    /\ LET f == [MTop EXCEPT !.ret = None, !.pc = "if_both"]
       IN  IF MTop.ret # 0
           THEN MStep(ctxt, [f EXCEPT !.todo = << LeftAsIs(f) >> \o RightKeys(f)], Marked(f))
           ELSE MGoto(f)

\* lines 847-858: both sides are linked
MarkIfBoth ==
    /\ MarkAt("if_both")
    /\ LET f == MTop
       IN  IF f.left_valid /\ f.right_valid
           THEN MStep(ctxt, [f EXCEPT !.todo = LeftKeys(f) \o RightKeys(f), !.pc = "next"],
                      Marked(f))
           ELSE MGoto([f EXCEPT !.pc = "next"])

\* line 808: on to the next disjunct of the match list
MarkNextDisjunct ==
    /\ MarkAt("next")
    /\ MGoto([MTop EXCEPT !.mi = @ + 1, !.pc = "disjunct"])

(***************************************************************************)
(* conjunction_prune, lines 897-956                                        *)
(***************************************************************************)
\* a context after init_table, a sentence with its deletable words, the
\* resources exhausted or not, the exhausted flag as an earlier do_parse may
\* have left it
PruneInit ==
    /\ sent \in 1 .. NumSentences + Len(PruneSentences)
    /\ opts \in [islands_ok : {FALSE}]
    /\ build = TRUE
    /\ live = TRUE
    /\ \E ex \in BOOLEAN : ctxt = [Allocated(sent) EXCEPT !.exhausted = ex]
    /\ stack = << >>
    /\ pc = "idle"
    /\ null_count = 0
    /\ total = 0
    /\ result = 0
    /\ res_out \in BOOLEAN
    /\ calls = 0
    /\ tainted = FALSE
    /\ lists = 0
    /\ mq = NoQuery
    /\ mres = NoResult
    /\ word_d = BuiltWordD
    /\ d_next = BuiltNext
    /\ d_marked \in [DAddrs -> BOOLEAN]
    /\ freed = << >>
    /\ deletable \in SUBSET (0 .. S.length - 1)
    /\ mstack = << >>

WholeSentence == Key(-1, S.length, NULL, NULL, 0)

\* lines 902-932: the context's fields, every disjunct unmarked, then the
\* null_links case calls mark_region on the whole sentence and the other
\* case starts its loop over the words
ConjunctionPruneBegin ==
    /\ live /\ pc = "idle"
    /\ \E nl \in BOOLEAN :
          /\ ctxt' = [ctxt EXCEPT !.current_resources = "resources", !.local_sent = "word",
                                  !.null_links = nl]
          /\ mstack' = << IF nl
                          THEN [MarkFrame(WholeSentence, "top_done") EXCEPT
                                   !.todo = << WholeSentence >>]
                          ELSE MarkFrame(WholeSentence, "top_word") >>
    /\ d_marked' = [a \in DAddrs |-> FALSE]
    /\ pc' = "prune"
    /\ UNCHANGED << sent, opts, build, live, stack, null_count, total, result, res_out,
                    calls, tainted, lists, matchVars, word_d, d_next, freed, deletable >>

\* lines 933-936: the next word w; its disjuncts are looked at if the words
\* before it are deletable
TopWord ==
    /\ MarkAt("top_word") /\ MTop.w < S.length
    /\ IF Deletable(-1, MTop.w)
       THEN MGoto([MTop EXCEPT !.m = AllOf(MTop.w), !.mi = 1, !.pc = "top_disjunct"])
       ELSE MGoto([MTop EXCEPT !.w = @ + 1])

\* line 933: the loop over the words is over
TopWordsDone ==
    /\ MarkAt("top_word") /\ ~(MTop.w < S.length)
    /\ MGoto([MTop EXCEPT !.pc = "top_done"])

\* lines 937-938: a disjunct without left connectors has the region to the
\* end of the sentence looked at
TopDisjunct ==
    /\ MarkAt("top_disjunct") /\ MTop.mi <= Len(MTop.m)
    /\ IF CurD(MTop).left # NULL THEN MGoto([MTop EXCEPT !.mi = @ + 1])
       ELSE MCall([MTop EXCEPT !.pc = "top_valid"],
                  Key(MTop.w, S.length, CurD(MTop).right, NULL, 0), "r_start")

\* lines 938-939: a valid region is marked
TopValid ==
    /\ Answered("top_valid")
    /\ IF MTop.ret # 0
       THEN MGoto([MTop EXCEPT !.ret = None, !.pc = "top_mark",
                               !.todo = << Key(MTop.w, S.length, CurD(MTop).right, NULL, 0) >>])
       ELSE MGoto([MTop EXCEPT !.ret = None, !.mi = @ + 1, !.pc = "top_disjunct"])

\* line 937: the disjuncts of word w are done
TopDisjunctsDone ==
    /\ MarkAt("top_disjunct") /\ ~(MTop.mi <= Len(MTop.m))
    /\ MGoto([MTop EXCEPT !.w = @ + 1, !.m = << >>, !.mi = 0, !.pc = "top_word"])

\* line 940: mark_region has returned; d->marked = TRUE
TopMark ==
    /\ MarkAt("top_mark")
    /\ MStep(ctxt, [MTop EXCEPT !.mi = @ + 1, !.pc = "top_disjunct"], Marked(MTop))

\* lines 947-955: delete_unmarked_disjuncts, then the context's fields
ConjunctionPruneEnd ==
    /\ MarkAt("top_done")
    /\ LET h == delete_unmarked_disjuncts(Heap)
       IN  /\ word_d' = h.word_d
           /\ d_next' = h.d_next
           /\ d_marked' = h.d_marked
           /\ freed' = h.freed
    /\ ctxt' = [ctxt EXCEPT !.local_sent = "NULL", !.current_resources = "NULL",
                            !.checktimer = 0]
    /\ mstack' = << >>
    /\ pc' = "pruned"
    /\ UNCHANGED << sent, opts, build, live, stack, null_count, total, result, res_out,
                    calls, tainted, lists, matchVars, deletable >>

PruneNext ==
    \/ ConjunctionPruneBegin
    \/ TopWord
    \/ TopWordsDone
    \/ TopDisjunct
    \/ TopValid
    \/ TopDisjunctsDone
    \/ TopMark
    \/ RegionStart
    \/ RegionWord
    \/ RegionNotFound
    \/ RegionPutMatchList
    \/ RegionLeft
    \/ RegionLeftCall
    \/ RegionLeftInvalid
    \/ RegionLeftAnswer
    \/ RegionRightAsIs
    \/ RegionRight
    \/ RegionRightCall
    \/ RegionRightInvalid
    \/ RegionRightAnswer
    \/ RegionLeftAsIs
    \/ MarkEnter
    \/ MarkEntered
    \/ MarkCall
    \/ MarkIsland
    \/ MarkIslandValid
    \/ MarkIslandRest
    \/ MarkIslandDone
    \/ MarkWord
    \/ MarkWordsDone
    \/ MarkPutMatchList
    \/ MarkLeft
    \/ MarkLeftCall
    \/ MarkLeftInvalid
    \/ MarkLeftAnswer
    \/ MarkRight
    \/ MarkRightCall
    \/ MarkRightInvalid
    \/ MarkRightAnswer
    \/ MarkIfLeft
    \/ MarkIfLeftValid
    \/ MarkIfRight
    \/ MarkIfRightValid
    \/ MarkIfBoth
    \/ MarkNextDisjunct
    \/ ConjunctionPruneEnd
    \/ ResourcesRunOut

SpecPrune == PruneInit /\ [][PruneNext]_vars

\* the value the memo holds for the key k, None if it holds none
Stored(k) ==
    IF chain_search(ctxt, k) = NULL THEN None ELSE ctxt.table[chain_search(ctxt, k)].count

\* the frame j is a mark_region call at lines 777-778 on a key the memo
\* holds as 0 or 2
MarkOfSettled(j) ==
    /\ mstack[j].pc = "entered"
    /\ Stored(FrameKey(mstack[j])) \in {0, 2}

\* the entry i is the one of the innermost mark_region call, which is at
\* line 780 and has called no mark_region yet, and its count goes from 1 to 2
MarkedNow(i) ==
    /\ At("entered")
    /\ MTop.todo = << >>
    /\ KeyOf(ctxt.table[i]) = FrameKey(MTop)
    /\ ctxt.table[i].count = 1
    /\ ctxt'.table[i] = [ctxt.table[i] EXCEPT !.count = 2]
    /\ Len(mstack') = Len(mstack)

\* C29: in the conjunction-pruning pass every value the memo stores is 0, 1
\* or 2; a stored entry stays as it is except that mark_region, before any
\* of its recursive calls, turns the 1 of its own key into 2; a mark_region
\* call on a key stored as 0 or 2 changes neither the memo nor any mark and
\* calls no mark_region; and a disjunct is only ever marked on a word
\* strictly between the lw and the rw of the call that marks it.
C29_MarkRegion ==
    /\ [](\A i \in 1 .. Len(ctxt.table) : ctxt.table[i].count \in {0, 1, 2})
    /\ [][ Pruning =>
             /\ \A i \in 1 .. Len(ctxt.table) :
                   /\ i <= Len(ctxt'.table)
                   /\ (ctxt'.table[i] = ctxt.table[i]) \/ MarkedNow(i)
             /\ \A j \in 1 .. Len(mstack) :
                   MarkOfSettled(j) =>
                       /\ UNCHANGED << ctxt, d_marked >>
                       /\ Len(mstack') <= Len(mstack)
                       /\ (j <= Len(mstack')) => (mstack'[j].pc = "entered")
             /\ \A a \in DAddrs :
                   (~d_marked[a] /\ d_marked'[a]) =>
                       (MTop.lw < DWord(a) /\ DWord(a) < MTop.rw)
       ]_vars

\* C29 witness: mark_region, called a second time on a region it has marked
\* (the memo holds 2 for its key), is about to return; a disjunct is marked
\* and the memo also holds a region that cannot be completed
C29_Witness ==
    /\ Answered("entered")
    /\ MTop.ret = 2
    /\ Stored(FrameKey(MTop)) = 2
    /\ \E a \in DAddrs : d_marked[a]
    /\ \E i \in 1 .. Len(ctxt.table) : ctxt.table[i].count = 0

====
